---- MODULE Spec2Model ----
(***************************************************************************)
(* Model of the image-resolution subsystem of the Rentman gateway:         *)
(*   - the in-memory TTL cache (utils/cache.ts),                           *)
(*   - the CDN adapter's URL generation and upload (cloudinaryService.ts), *)
(*   - the GET /api/images/:filename handler (server/app.ts), one action   *)
(*     per synchronous segment between two awaits,                         *)
(*   - the upstream client's retry logic (client/RentmanApiClient.ts),     *)
(*   - the rate limiter (middleware/rateLimiter.ts),                       *)
(*   - POST /api/images/upload and the gallery route, which upload too.    *)
(*                                                                         *)
(* Strings are sequences of tokens.  A token is "_", ".", "/", ":" or a    *)
(* maximal non-empty run of letters and digits, so that the regular        *)
(* expressions of the source can be evaluated on the sequence.             *)
(***************************************************************************)
EXTENDS Integers, Sequences, FiniteSets, TLC

\* ------------------------------------------------------------------ bounds
\* number of GET /api/images requests in one behaviour
NReq == 2
\* number of clock advances in one behaviour
MaxTicks == 2
\* capacity of the cache (config.cache.maxSize, CACHE_MAX_SIZE)
CacheMaxSize == 2
\* number of calls of the cache API in one behaviour of SpecCache
MaxCacheOps == 4
\* largest configured retries value of the upstream client
MaxRetries == 3
\* the rate limit: requests per window (config.server.rateLimit.max) and
\* length of the window in ms (config.server.rateLimit.windowMs)
LimitMax == 2
WindowMs == 3
\* requests through the rate limiter and clock advances in one behaviour
MaxLimiterOps == 5
MaxLimiterTicks == 4
\* largest number of records in a gallery's media list
MaxGalleryLen == 2
\* calls of syncProperties in one run of the sync model
MaxSyncRuns == 3

\* --------------------------------------------------------- program constants
DefaultTtlSec == 3600
ImageTtlSec == 3600
MsPerSec == 1000
\* RentmanApiClient.config.retryDelay
RetryDelayMs == 1000

Folder == <<"rentman-properties">>

\* sizes known to CloudinaryService.generateSizeUrl
SizeNames == {<<"thumb">>, <<"medium">>, <<"large">>, <<"original">>}
\* Object.entries order of the result of uploadMultipleSizes
SizeOrder == <<(<<"thumb">>), (<<"medium">>), (<<"large">>), (<<"original">>)>>

\* ------------------------------------------------------------------- inputs
\* requests: req.params.filename and req.query.size (<<>> when absent)
Inputs ==
  { [f |-> <<"foo", ".", "jpg">>, q |-> <<>>],
    [f |-> <<"foo", ".", "jpg">>, q |-> <<"thumb">>],
    [f |-> <<"foo", "_", "thumb", ".", "jpg">>, q |-> <<>>],
    [f |-> <<"foo", "_", "large", ".", "jpg">>, q |-> <<>>],
    [f |-> <<"foo", "_", "big", ".", "jpg">>, q |-> <<>>],
    [f |-> <<"my", "_", "foo", ".", "jpg">>, q |-> <<>>] }

\* image requests for one stem under two extensions
ExtensionInputs ==
  { [f |-> <<"foo", ".", "jpg">>, q |-> <<>>],
    [f |-> <<"foo", ".", "webp">>, q |-> <<>>] }

Filenames == { i.f : i \in Inputs \cup ExtensionInputs }

\* image requests whose size token is no key of the upload result: a name
\* without suffix and one whose suffix names a property of Object.prototype
NameInputs ==
  { [f |-> <<"foo", ".", "jpg">>, q |-> <<>>],
    [f |-> <<"foo", "_", "constructor", ".", "jpg">>, q |-> <<>>] }

\* the image requests made while the other uploading routes are driven too
UploadInputs ==
  { [f |-> <<"foo", "_", "thumb", ".", "jpg">>, q |-> <<>>] }

\* lengths by which the clock advances, in milliseconds
ClockSteps == { 1, ImageTtlSec * MsPerSec }

\* ------------------------------------------------------- filename parsing
\* \w matches letters, digits and "_"
WordTok(t) == t \notin {".", "/", ":"}

\* end of the maximal run of \w tokens of f that starts at index i
RunEnd(f, i) ==
  CHOOSE j \in (i - 1)..Len(f) :
    /\ \A k \in i..j : WordTok(f[k])
    /\ (j = Len(f) \/ ~WordTok(f[j + 1]))

\* positions at which /_(\w+)\./ matches f
SizeMatchPositions(f) ==
  { i \in 1..Len(f) :
      /\ f[i] = "_"
      /\ RunEnd(f, i + 1) >= i + 1
      /\ RunEnd(f, i + 1) < Len(f)
      /\ f[RunEnd(f, i + 1) + 1] = "." }

\* position of the leftmost match, 0 when there is none
SizeMatchPos(f) ==
  IF SizeMatchPositions(f) = {} THEN 0
  ELSE CHOOSE i \in SizeMatchPositions(f) :
         \A j \in SizeMatchPositions(f) : i <= j

\* imageSize: the captured group, else the query parameter, else 'medium'
ImageSize(f, q) ==
  IF SizeMatchPos(f) # 0
    THEN SubSeq(f, SizeMatchPos(f) + 1, RunEnd(f, SizeMatchPos(f) + 1))
    ELSE IF q # <<>> THEN q ELSE <<"medium">>

\* filename.replace(/_\w+\./, '.')
BaseFilename(f) ==
  IF SizeMatchPos(f) = 0 THEN f
  ELSE SubSeq(f, 1, SizeMatchPos(f) - 1) \o <<".">>
       \o SubSeq(f, RunEnd(f, SizeMatchPos(f) + 1) + 2, Len(f))

\* s.replace(/\.[^/.]+$/, '')
StripExt(s) ==
  LET dots == { i \in 1..Len(s) : s[i] = "." }
      last == CHOOSE i \in dots : \A j \in dots : j <= i
  IN IF dots = {} THEN s
     ELSE IF last < Len(s) /\ \A k \in (last + 1)..Len(s) : s[k] # "/"
       THEN SubSeq(s, 1, last - 1)
       ELSE s

\* a token of the form v\d+
IsVersionTok(t) == t \in {"v1", "v2"}

\* s.replace(/^v\d+\//, '')
StripVersionPrefix(s) ==
  IF Len(s) >= 2 /\ IsVersionTok(s[1]) /\ s[2] = "/"
    THEN SubSeq(s, 3, Len(s))
    ELSE s

\* `${config.cloudinary.folder}/${baseNameWithoutExt}`.replace(/^v\d+\//, '')
PublicId(f) ==
  StripVersionPrefix(Folder \o <<"/">> \o StripExt(BaseFilename(f)))

\* CacheKeys.image(filename, size)
ImageKey(base, size) == <<"image", ":">> \o base \o <<":">> \o size

\* ---------------------------------------------------------------- the cache
NoTransform == [width |-> "", height |-> "", quality |-> "", crop |-> ""]

\* the absent URL (null / undefined)
NoValue == [pid |-> <<>>, tr |-> NoTransform, ver |-> 0]

\* index of key k in the Map c (insertion order), 0 when absent
CacheIndex(c, k) ==
  IF \E i \in 1..Len(c) : c[i].key = k
    THEN CHOOSE i \in 1..Len(c) : c[i].key = k
    ELSE 0

CacheKeysOf(c) == { c[i].key : i \in 1..Len(c) }

RemoveAt(c, i) == SubSeq(c, 1, i - 1) \o SubSeq(c, i + 1, Len(c))

\* CacheGet that never finds an entry
CacheGetAlwaysMiss(c, k, t) == [cache |-> c, found |-> FALSE, value |-> NoValue]

\* Cache.get at time t: the Map afterwards, and the value returned
CacheGet(c, k, t) ==
  LET i == CacheIndex(c, k)
  IN IF i = 0 THEN [cache |-> c, found |-> FALSE, value |-> NoValue]
     ELSE IF t > c[i].expires
       THEN [cache |-> RemoveAt(c, i), found |-> FALSE, value |-> NoValue]
       ELSE [cache |-> c, found |-> TRUE, value |-> c[i].value]

\* Cache.has at time t
CacheHas(c, k, t) ==
  LET i == CacheIndex(c, k)
  IN IF i = 0 THEN [cache |-> c, found |-> FALSE]
     ELSE IF t > c[i].expires
       THEN [cache |-> RemoveAt(c, i), found |-> FALSE]
       ELSE [cache |-> c, found |-> TRUE]

\* Cache.evictOldest at time t
EvictOldest(c, t) ==
  LET cand == { i \in 1..Len(c) : c[i].created < t }
      pick == CHOOSE i \in cand :
                /\ \A j \in cand : c[i].created <= c[j].created
                /\ \A j \in cand : c[j].created = c[i].created => i <= j
  IN IF cand = {} THEN c ELSE RemoveAt(c, pick)

\* the ttl in milliseconds that Cache.set uses for its customTtl argument;
\* customTtl is <<>> when omitted and <<n>> when n is passed
TtlMs(customTtl) ==
  IF customTtl # <<>> /\ customTtl[1] # 0
    THEN customTtl[1] * MsPerSec
    ELSE DefaultTtlSec * MsPerSec

\* Cache.set at time t
CacheSet(c, k, v, customTtl, t) ==
  LET c1 == IF Len(c) >= CacheMaxSize THEN EvictOldest(c, t) ELSE c
      item == [key |-> k, value |-> v,
               expires |-> t + TtlMs(customTtl), created |-> t]
      i == CacheIndex(c1, k)
  IN IF i = 0 THEN Append(c1, item)
     ELSE [c1 EXCEPT ![i] = item]

\* Cache.delete
CacheDelete(c, k) ==
  IF CacheIndex(c, k) = 0 THEN c ELSE RemoveAt(c, CacheIndex(c, k))

\* Cache.cleanup at time t
CacheCleanup(c, t) == SelectSeq(c, LAMBDA e : ~(t > e.expires))

\* ------------------------------------------------------- the CDN adapter
\* the table of CloudinaryService.generateSizeUrl; transformations[size] is
\* undefined for any other size
Transformations(size) ==
  IF size = <<"thumb">>
    THEN [width |-> "300", height |-> "200", quality |-> "80", crop |-> "fill"]
  ELSE IF size = <<"medium">>
    THEN [width |-> "800", height |-> "600", quality |-> "85", crop |-> "fill"]
  ELSE IF size = <<"large">>
    THEN [width |-> "1200", height |-> "900", quality |-> "90", crop |-> "fill"]
  ELSE IF size = <<"original">>
    THEN [width |-> "", height |-> "", quality |-> "auto", crop |-> ""]
  ELSE NoTransform

\* s.replace(/\/v\d+\//, '/')
StripInnerVersion(s) ==
  LET hits == { i \in 1..(Len(s) - 2) :
                  s[i] = "/" /\ IsVersionTok(s[i + 1]) /\ s[i + 2] = "/" }
      first == CHOOSE i \in hits : \A j \in hits : i <= j
  IN IF hits = {} THEN s
     ELSE SubSeq(s, 1, first) \o SubSeq(s, first + 3, Len(s))

\* CloudinaryService.generateUrl: the URL built from the cleaned public id,
\* the transformation and the version (0: no version given)
GenerateUrl(publicId, transformation, version) ==
  [pid |-> StripInnerVersion(StripVersionPrefix(publicId)),
   tr |-> transformation, ver |-> version]

\* CloudinaryService.generateSizeUrl
GenerateSizeUrl(publicId, size, version) ==
  GenerateUrl(publicId, Transformations(size), version)

\* public id under which uploadBase64Image stores the file
UploadPublicId(fname) == Folder \o <<"/">> \o StripExt(fname)

\* CloudinaryService.uploadMultipleSizes, given the version of the upload
\* response (0: the response carries no version, version becomes '')
UploadMultipleSizes(fname, respVersion) ==
  [s \in SizeNames |->
     GenerateSizeUrl(StripVersionPrefix(UploadPublicId(fname)), s, respVersion)]

\* names that every object literal inherits from Object.prototype, so that
\* cloudinaryResults[name] is a function and not undefined
ObjectPrototypeKeys ==
  { <<"constructor">>, <<"toString">>, <<"valueOf">>, <<"hasOwnProperty">> }

\* the Location a redirect to such an inherited function gets: the text of
\* the function, which is no URL of the asset
InheritedProperty == [pid |-> <<"function">>, tr |-> NoTransform, ver |-> 0]

\* cloudinaryResults[imageSize] || cloudinaryResults['medium']
PickUrl(results, size) ==
  IF size \in DOMAIN results THEN results[size]
  ELSE IF size \in ObjectPrototypeKeys THEN InheritedProperty
  ELSE results[<<"medium">>]

\* CacheAllSizes that caches the medium URL only
CacheAllSizesMediumOnly(c, base, results, n, t) ==
  CacheSet(c, ImageKey(base, <<"medium">>), results[<<"medium">>],
           <<ImageTtlSec>>, t)

\* the cache after the forEach over Object.entries(cloudinaryResults)
RECURSIVE CacheAllSizes(_, _, _, _, _)
CacheAllSizes(c, base, results, n, t) ==
  IF n = 0 THEN c
  ELSE CacheSet(CacheAllSizes(c, base, results, n - 1, t),
                ImageKey(base, SizeOrder[n]), results[SizeOrder[n]],
                <<ImageTtlSec>>, t)

\* ------------------------------------------------------------------- state
Reqs == 1..NReq
Bases == { BaseFilename(f) : f \in Filenames }
PublicIds == { PublicId(f) : f \in Filenames }
NoResults == [s \in SizeNames |-> NoValue]
NoAnswer == [kind |-> "none", version |-> 0]
NoResp == [status |-> 0, url |-> NoValue]

VARIABLES
  now,              \* Date.now()
  ticks,            \* number of clock advances so far
  cache,            \* Cache.cache: the Map, in insertion order
  uploadingImages,  \* RentmanServer.uploadingImages: base filename -> owner
  cdn,              \* CDN store: public id -> version of the asset, 0 absent
  cdnClock,         \* last version the CDN has assigned
  pc,               \* position of each request's handler
  filename,         \* req.params.filename of each request
  query,            \* req.query.size of each request
  resp,             \* the response sent by each request
  via,              \* path each request took: cache, cdn, owner, waiter
  lookupSaw,        \* version the store held when getImageInfo was called
  cdnAnswer,        \* settled outcome of each request's getImageInfo
  waitOn,           \* the request whose uploadPromise a waiter awaits
  opState,          \* state of the uploadPromise created by each request
  opResult,         \* value of a resolved uploadPromise
  opFailure,        \* what made a rejected uploadPromise reject
  upstreamCalls,    \* getPropertyMedia calls made, per base filename
  uploadCalls,      \* uploadMultipleSizes calls made, per base filename
  cdnChecks,        \* getImageInfo calls made, per base filename
  cacheOps,         \* SpecCache: number of cache API calls so far
  lastOp,           \* SpecCache: the last cache API call and what it returned
  setLog,           \* SpecCache: per key, when and with which ttl it was set
  cRetries,         \* RentmanApiClient.config.retries
  cState,           \* position of one call through the upstream client
  cParams,          \* the selector passed to getPropertyMedia
  cRetryCount,      \* config['retryCount'] of the request, 0 when unset
  cAttempts,        \* HTTP requests sent for the call
  cLog,             \* what each attempt settled with, in order
  cWaits,           \* the backoff delays waited, in order
  cResult,          \* what the call resolved or was rejected with
  lNow,             \* SpecLimiter: Date.now()
  lTicks,           \* SpecLimiter: number of clock advances so far
  limiter,          \* RateLimiter.requests: identifier -> entry
  lLast,            \* the last request through the middleware and its answer
  lAllowed,         \* per identifier, the times of the requests let through
  lOps,             \* number of requests through the middleware so far
  pState,           \* position of the POST /api/images/upload handler
  pFile,            \* req.body.filename of the POST request
  pResp,            \* the response of the POST request
  gState,           \* position of the gallery handler
  gMedia,           \* mediaResponse.data of the gallery request
  gUpload,          \* state of the upload of each gallery record
  gResp,            \* status of the gallery response
  sPc,              \* position of each execution of syncProperties
  isSyncing,        \* PropertySyncService.isSyncing of each process
  syncLock,         \* whether Redis holds the key sync:lock
  syncData,         \* whether Redis holds the synced properties
  syncCount,        \* PropertySyncService.syncCount of each process
  errorCount,       \* PropertySyncService.errorCount of each process
  sLog,             \* how the last execution of each trigger ended
  sRuns             \* calls of syncProperties so far

vars == <<now, ticks, cache, uploadingImages, cdn, cdnClock, pc, filename,
          query, resp, via, lookupSaw, cdnAnswer, waitOn, opState,
          opResult, opFailure, upstreamCalls, uploadCalls, cdnChecks, cacheOps,
          lastOp, setLog, cRetries, cState, cParams, cRetryCount, cAttempts,
          cLog, cWaits, cResult, lNow, lTicks, limiter, lLast, lAllowed, lOps,
          pState, pFile, pResp, gState, gMedia, gUpload, gResp, sPc,
          isSyncing, syncLock, syncData, syncCount, errorCount, sLog, sRuns>>

routeVars == <<uploadingImages, cdn, cdnClock, pc, filename, query, resp, via,
               lookupSaw, cdnAnswer, waitOn, opState, opResult, opFailure,
               upstreamCalls, uploadCalls, cdnChecks>>

cacheApiVars == <<cacheOps, lastOp, setLog>>

clientVars == <<cRetries, cState, cParams, cRetryCount, cAttempts, cLog,
                cWaits, cResult>>

limiterVars == <<lNow, lTicks, limiter, lLast, lAllowed, lOps>>

uploadsVars == <<pState, pFile, pResp, gState, gMedia, gUpload, gResp>>

syncVars == <<sPc, isSyncing, syncLock, syncData, syncCount, errorCount,
             sLog, sRuns>>

\* the variables of the components driven on their own
sideVars == <<clientVars, limiterVars, uploadsVars, syncVars>>

\* the processes that share one Redis, and what calls syncProperties in each
Processes == { "p1", "p2" }
Triggers == { "cron", "manual" }
Execs == Processes \X Triggers

\* keys and ttl arguments used when the cache API is driven directly
ApiKeys == { <<"k1">>, <<"k2">>, <<"k3">> }
ApiTtls == { <<>>, <<0>>, <<1>> }
NoLog == [at |-> 0, ttl |-> <<>>, set |-> FALSE]
NoOp == [op |-> "none", key |-> <<>>, found |-> FALSE, value |-> NoValue,
         at |-> 0, held |-> FALSE]
ApiValue(n) == [pid |-> <<"value">>, tr |-> NoTransform, ver |-> n]

\* client identifiers (req.ip)
Identifiers == { "ip1", "ip2" }

\* RateLimiter.requests.get(id) when the Map has no entry for id
NoEntry == [present |-> FALSE, count |-> 0, resetTime |-> 0]
\* no request has passed the middleware yet
NoLimited == [id |-> "", at |-> 0, allowed |-> FALSE, status |-> 0,
              remaining |-> 0, resetTime |-> 0]

\* the selector and the result of a call that has not been made
NoSelector == [propref |-> "undefined", filename |-> "undefined"]
NoResult ==
  [kind |-> "none", success |-> FALSE, error |-> "", message |-> "",
   code |-> <<>>]

Init ==
  /\ now = 0
  /\ ticks = 0
  /\ cache = <<>>
  /\ uploadingImages = [b \in Bases |-> 0]
  /\ cdn = [p \in PublicIds |-> 0]
  /\ cdnClock = 0
  /\ pc = [r \in Reqs |-> "idle"]
  /\ filename = [r \in Reqs |-> <<>>]
  /\ query = [r \in Reqs |-> <<>>]
  /\ resp = [r \in Reqs |-> NoResp]
  /\ via = [r \in Reqs |-> "none"]
  /\ lookupSaw = [r \in Reqs |-> 0]
  /\ cdnAnswer = [r \in Reqs |-> NoAnswer]
  /\ opFailure = [r \in Reqs |-> "none"]
  /\ waitOn = [r \in Reqs |-> 0]
  /\ opState = [r \in Reqs |-> "none"]
  /\ opResult = [r \in Reqs |-> NoResults]
  /\ upstreamCalls = [b \in Bases |-> 0]
  /\ uploadCalls = [b \in Bases |-> 0]
  /\ cdnChecks = [b \in Bases |-> 0]
  /\ cacheOps = 0
  /\ lastOp = NoOp
  /\ setLog = [k \in ApiKeys |-> NoLog]
  /\ cRetries = 0
  /\ cState = "unbuilt"
  /\ cParams = NoSelector
  /\ cRetryCount = 0
  /\ cAttempts = 0
  /\ cLog = <<>>
  /\ cWaits = <<>>
  /\ cResult = NoResult
  /\ lNow = 0
  /\ lTicks = 0
  /\ limiter = [id \in Identifiers |-> NoEntry]
  /\ lLast = NoLimited
  /\ lAllowed = [id \in Identifiers |-> <<>>]
  /\ lOps = 0
  /\ pState = "idle"
  /\ pFile = <<>>
  /\ pResp = [status |-> 0, results |-> NoResults]
  /\ gState = "idle"
  /\ gMedia = <<>>
  /\ gUpload = <<>>
  /\ gResp = 0
  /\ sPc = [x \in Execs |-> "idle"]
  /\ isSyncing = [p \in Processes |-> FALSE]
  /\ syncLock = FALSE
  /\ syncData = FALSE
  /\ syncCount = [p \in Processes |-> 0]
  /\ errorCount = [p \in Processes |-> 0]
  /\ sLog = [x \in Execs |-> "none"]
  /\ sRuns = 0

\* --------------------------------------------- GET /api/images/:filename
\* Settled that sees a fulfilled promise only
SettledOnFulfil(r) == opState[r] = "resolved"

\* the upload promise created by request r has settled
Settled(r) == opState[r] \in {"resolved", "rejected"}

\* app.ts 131-166: the request arrives, the filename is parsed and the cache
\* is read; on a hit the handler redirects, on a miss it calls getImageInfo
Request(r, f, q) ==
  LET base == BaseFilename(f)
      got == CacheGet(cache, ImageKey(base, ImageSize(f, q)), now)
  IN /\ pc[r] = "idle"
     /\ (IF r = 1 THEN TRUE ELSE pc[r - 1] # "idle")
     /\ filename' = [filename EXCEPT ![r] = f]
     /\ query' = [query EXCEPT ![r] = q]
     /\ cache' = got.cache
     /\ IF got.found
          THEN /\ resp' = [resp EXCEPT ![r] = [status |-> 302, url |-> got.value]]
               /\ via' = [via EXCEPT ![r] = "cache"]
               /\ pc' = [pc EXCEPT ![r] = "done"]
               /\ UNCHANGED <<cdnChecks, lookupSaw>>
          ELSE /\ cdnChecks' = [cdnChecks EXCEPT ![base] = @ + 1]
               /\ lookupSaw' = [lookupSaw EXCEPT ![r] = cdn[PublicId(f)]]
               /\ pc' = [pc EXCEPT ![r] = "cdn_wait"]
               /\ UNCHANGED <<resp, via>>
     /\ UNCHANGED <<now, ticks, uploadingImages, cdn, cdnClock, cdnAnswer,
                    waitOn, opState, opResult, upstreamCalls, uploadCalls>>
     /\ UNCHANGED opFailure
     /\ UNCHANGED <<cacheApiVars, sideVars>>

\* what the getImageInfo call of request r can settle with: a transient
\* error; a not-found error, when the store had no such asset at the time
\* of the call (the lookup is served at some time between the call and its
\* settling); or the resource as the store holds it, with or without a
\* version field
CdnAnswers(r) ==
  LET p == PublicId(filename[r])
  IN { [kind |-> "transient", version |-> 0] }
     \cup (IF lookupSaw[r] = 0
            THEN { [kind |-> "notfound", version |-> 0] } ELSE {})
     \cup (IF cdn[p] = 0 THEN {}
           ELSE { [kind |-> "found", version |-> cdn[p]],
                  [kind |-> "found", version |-> 0] })

\* the largest version the store can assign: one per image request, one for
\* the POST upload and one per gallery record
MaxVersion == NReq + 1 + MaxGalleryLen

\* every answer getImageInfo can give in some state of the store
CdnAnswerKinds ==
  { [kind |-> k, version |-> 0] : k \in {"transient", "notfound", "found"} }
  \cup { [kind |-> "found", version |-> v] : v \in 1..MaxVersion }

\* CdnFound that redirects without caching the URL
CdnFoundUncached(r, a) ==
  LET f == filename[r]
      size == ImageSize(f, query[r])
      url == GenerateSizeUrl(PublicId(f), size, a.version)
  IN /\ pc[r] = "cdn_wait"
     /\ a \in CdnAnswers(r)
     /\ a.kind = "found"
     /\ cdnAnswer' = [cdnAnswer EXCEPT ![r] = a]
     /\ resp' = [resp EXCEPT ![r] = [status |-> 302, url |-> url]]
     /\ via' = [via EXCEPT ![r] = "cdn"]
     /\ pc' = [pc EXCEPT ![r] = "done"]
     /\ UNCHANGED <<now, ticks, cache, uploadingImages, cdn, cdnClock,
                    filename, query, waitOn, opState, opResult,
                    upstreamCalls, uploadCalls, cdnChecks, lookupSaw>>
     /\ UNCHANGED opFailure
     /\ UNCHANGED <<cacheApiVars, sideVars>>

\* app.ts 167-182: getImageInfo resolved with answer a
CdnFound(r, a) ==
  LET f == filename[r]
      size == ImageSize(f, query[r])
      url == GenerateSizeUrl(PublicId(f), size, a.version)
  IN /\ pc[r] = "cdn_wait"
     /\ a \in CdnAnswers(r)
     /\ a.kind = "found"
     /\ cdnAnswer' = [cdnAnswer EXCEPT ![r] = a]
     /\ cache' = CacheSet(cache, ImageKey(BaseFilename(f), size), url,
                          <<ImageTtlSec>>, now)
     /\ resp' = [resp EXCEPT ![r] = [status |-> 302, url |-> url]]
     /\ via' = [via EXCEPT ![r] = "cdn"]
     /\ pc' = [pc EXCEPT ![r] = "done"]
     /\ UNCHANGED <<now, ticks, uploadingImages, cdn, cdnClock, filename,
                    query, waitOn, opState, opResult,
                    upstreamCalls, uploadCalls, cdnChecks, lookupSaw>>
     /\ UNCHANGED opFailure
     /\ UNCHANGED <<cacheApiVars, sideVars>>

\* app.ts 194: the registry entry for the upload key, 0 when there is none
RegistryLookup(reg, key) == reg[key]

\* app.ts 184-201: getImageInfo rejected with answer a and an upload is
\* pending for the base filename: the handler awaits the registered promise
JoinUpload(r, a) ==
  LET base == BaseFilename(filename[r])
  IN /\ pc[r] = "cdn_wait"
     /\ a \in CdnAnswers(r)
     /\ a.kind # "found"
     /\ cdnAnswer' = [cdnAnswer EXCEPT ![r] = a]
     /\ RegistryLookup(uploadingImages, base) # 0
     /\ waitOn' = [waitOn EXCEPT ![r] = RegistryLookup(uploadingImages, base)]
     /\ via' = [via EXCEPT ![r] = "waiter"]
     /\ pc' = [pc EXCEPT ![r] = "waiting"]
     /\ UNCHANGED <<now, ticks, cache, uploadingImages, cdn, cdnClock,
                    filename, query, resp, opState, opResult,
                    upstreamCalls, uploadCalls, cdnChecks, lookupSaw>>
     /\ UNCHANGED opFailure
     /\ UNCHANGED <<cacheApiVars, sideVars>>

\* RegistrySet with the registration lost
RegistrySetLost(reg, key, r) == reg

\* app.ts 241: this.uploadingImages.set(uploadKey, uploadPromise)
RegistrySet(reg, key, r) == [reg EXCEPT ![key] = r]

\* StartUpload that lets a transient getImageInfo error reach the outer
\* catch of the handler (500) instead of falling through to the upload
StartUploadPropagates(r, a) ==
  LET base == BaseFilename(filename[r])
  IN /\ pc[r] = "cdn_wait"
     /\ a \in CdnAnswers(r)
     /\ a.kind # "found"
     /\ RegistryLookup(uploadingImages, base) = 0
     /\ cdnAnswer' = [cdnAnswer EXCEPT ![r] = a]
     /\ IF a.kind = "transient"
          THEN /\ resp' = [resp EXCEPT ![r] = [status |-> 500, url |-> NoValue]]
               /\ pc' = [pc EXCEPT ![r] = "done"]
               /\ UNCHANGED <<opState, upstreamCalls, uploadingImages, via>>
          ELSE /\ opState' = [opState EXCEPT ![r] = "fetching"]
               /\ upstreamCalls' = [upstreamCalls EXCEPT ![base] = @ + 1]
               /\ uploadingImages' = [uploadingImages EXCEPT ![base] = r]
               /\ via' = [via EXCEPT ![r] = "owner"]
               /\ pc' = [pc EXCEPT ![r] = "owner_wait"]
               /\ UNCHANGED resp
     /\ UNCHANGED <<now, ticks, cache, cdn, cdnClock, filename, query,
                    waitOn, opResult, uploadCalls, cdnChecks, lookupSaw>>
     /\ UNCHANGED opFailure
     /\ UNCHANGED <<cacheApiVars, sideVars>>

\* app.ts 184-245: getImageInfo rejected with answer a and no upload is
\* pending: the handler creates the upload promise (which calls
\* getPropertyMedia before its first await), registers it and awaits it,
\* all in one synchronous run
StartUpload(r, a) ==
  LET base == BaseFilename(filename[r])
  IN /\ pc[r] = "cdn_wait"
     /\ a \in CdnAnswers(r)
     /\ a.kind # "found"
     /\ cdnAnswer' = [cdnAnswer EXCEPT ![r] = a]
     /\ RegistryLookup(uploadingImages, base) = 0
     /\ opState' = [opState EXCEPT ![r] = "fetching"]
     /\ upstreamCalls' = [upstreamCalls EXCEPT ![base] = @ + 1]
     /\ uploadingImages' = RegistrySet(uploadingImages, base, r)
     /\ via' = [via EXCEPT ![r] = "owner"]
     /\ pc' = [pc EXCEPT ![r] = "owner_wait"]
     /\ UNCHANGED <<now, ticks, cache, cdn, cdnClock, filename, query, resp,
                    waitOn, opResult, uploadCalls, cdnChecks, lookupSaw>>
     /\ UNCHANGED opFailure
     /\ UNCHANGED <<cacheApiVars, sideVars>>

\* outcomes of getPropertyMedia: a record with bytes, an empty list, a
\* record without base64data, or a rejection (network failure or 5xx after
\* the retries, 4xx, timeout)
UpstreamOutcomes == {"ok", "empty", "nobytes", "error"}

\* app.ts 207-227: getPropertyMedia settled inside the upload promise
UpstreamSettle(r, outcome) ==
  LET base == BaseFilename(filename[r])
  IN /\ opState[r] = "fetching"
     /\ IF outcome = "ok"
          THEN /\ opState' = [opState EXCEPT ![r] = "uploading"]
               /\ uploadCalls' = [uploadCalls EXCEPT ![base] = @ + 1]
          ELSE /\ opState' = [opState EXCEPT ![r] = "rejected"]
               /\ UNCHANGED uploadCalls
     /\ opFailure' = [opFailure EXCEPT ![r] =
                        IF outcome = "ok" THEN @ ELSE outcome]
     /\ UNCHANGED <<now, ticks, cache, uploadingImages, cdn, cdnClock, pc,
                    filename, query, resp, via, cdnAnswer, waitOn, opResult,
                    upstreamCalls, cdnChecks, lookupSaw>>
     /\ UNCHANGED <<cacheApiVars, sideVars>>

\* app.ts 224-237, cloudinaryService.ts 46-116: the CDN stored the upload
\* under a new version; withVersion tells whether its response carries it
UploadSucceed(r, withVersion) ==
  LET base == BaseFilename(filename[r])
      results == UploadMultipleSizes(base,
                   IF withVersion THEN cdnClock + 1 ELSE 0)
  IN /\ opState[r] = "uploading"
     /\ cdnClock' = cdnClock + 1
     /\ cdn' = [cdn EXCEPT ![StripVersionPrefix(UploadPublicId(base))] =
                  cdnClock + 1]
     /\ cache' = CacheAllSizes(cache, base, results, Len(SizeOrder), now)
     /\ opResult' = [opResult EXCEPT ![r] = results]
     /\ opState' = [opState EXCEPT ![r] = "resolved"]
     /\ UNCHANGED <<now, ticks, uploadingImages, pc, filename, query, resp,
                    via, cdnAnswer, waitOn, upstreamCalls, uploadCalls,
                    cdnChecks, lookupSaw>>
     /\ UNCHANGED opFailure
     /\ UNCHANGED <<cacheApiVars, sideVars>>

\* UploadFail that also caches the failure as the medium URL
UploadFailCached(r) ==
  /\ opState[r] = "uploading"
  /\ opState' = [opState EXCEPT ![r] = "rejected"]
  /\ opFailure' = [opFailure EXCEPT ![r] = "cdn"]
  /\ cache' = CacheSet(cache,
                       ImageKey(BaseFilename(filename[r]), <<"medium">>),
                       NoValue, <<ImageTtlSec>>, now)
  /\ UNCHANGED <<now, ticks, uploadingImages, cdn, cdnClock, pc,
                 filename, query, resp, via, cdnAnswer, waitOn, opResult,
                 upstreamCalls, uploadCalls, cdnChecks, lookupSaw>>
  /\ UNCHANGED <<cacheApiVars, sideVars>>

\* cloudinaryService.ts 83-86, 117-120: the CDN upload failed
UploadFail(r) ==
  /\ opState[r] = "uploading"
  /\ opState' = [opState EXCEPT ![r] = "rejected"]
  /\ opFailure' = [opFailure EXCEPT ![r] = "cdn"]
  /\ UNCHANGED <<now, ticks, cache, uploadingImages, cdn, cdnClock, pc,
                 filename, query, resp, via, cdnAnswer, waitOn, opResult,
                 upstreamCalls, uploadCalls, cdnChecks, lookupSaw>>
  /\ UNCHANGED <<cacheApiVars, sideVars>>

\* UploadResponse that lets a rejection pass without sending a response
UploadResponseRethrows(r, o) ==
  IF opState[o] = "resolved"
    THEN [status |-> 302,
          url |-> PickUrl(opResult[o], ImageSize(filename[r], query[r]))]
    ELSE NoResp

\* the response of a handler that awaited upload promise o: app.ts 199-200
\* and 246-247 when it resolved, 254-268 when it rejected
UploadResponse(r, o) ==
  IF opState[o] = "resolved"
    THEN [status |-> 302,
          url |-> PickUrl(opResult[o], ImageSize(filename[r], query[r]))]
    ELSE [status |-> 404, url |-> NoValue]

\* RegistryDelete with the cleanup left out
RegistryDeleteSkipped(reg, key) == reg

\* app.ts 250: this.uploadingImages.delete(uploadKey)
RegistryDelete(reg, key) == [reg EXCEPT ![key] = 0]

\* app.ts 244-269: the owner's await of its upload promise returns or throws
OwnerResume(r) ==
  /\ pc[r] = "owner_wait"
  /\ Settled(r)
  /\ resp' = [resp EXCEPT ![r] = UploadResponse(r, r)]
  /\ uploadingImages' =
       RegistryDelete(uploadingImages, BaseFilename(filename[r]))
  /\ pc' = [pc EXCEPT ![r] = "done"]
  /\ UNCHANGED <<now, ticks, cache, cdn, cdnClock, filename, query, via,
                 cdnAnswer, waitOn, opState, opResult, upstreamCalls,
                 uploadCalls, cdnChecks, lookupSaw>>
  /\ UNCHANGED opFailure
  /\ UNCHANGED <<cacheApiVars, sideVars>>

\* app.ts 198-200, 254-269: a waiter's await of the registered promise
\* returns or throws
WaiterResume(r) ==
  /\ pc[r] = "waiting"
  /\ Settled(waitOn[r])
  /\ resp' = [resp EXCEPT ![r] = UploadResponse(r, waitOn[r])]
  /\ pc' = [pc EXCEPT ![r] = "done"]
  /\ UNCHANGED <<now, ticks, cache, uploadingImages, cdn, cdnClock, filename,
                 query, via, cdnAnswer, waitOn, opState, opResult,
                 upstreamCalls, uploadCalls, cdnChecks, lookupSaw>>
  /\ UNCHANGED opFailure
  /\ UNCHANGED <<cacheApiVars, sideVars>>

\* the clock advances
Tick(d) ==
  /\ ticks < MaxTicks
  /\ now' = now + d
  /\ ticks' = ticks + 1
  /\ UNCHANGED <<cache, routeVars, cacheApiVars, sideVars>>

Next ==
  \/ \E r \in Reqs, i \in Inputs : Request(r, i.f, i.q)
  \/ \E r \in Reqs, a \in CdnAnswerKinds : CdnFound(r, a)
  \/ \E r \in Reqs, a \in CdnAnswerKinds : JoinUpload(r, a)
  \/ \E r \in Reqs, a \in CdnAnswerKinds : StartUpload(r, a)
  \/ \E r \in Reqs, o \in UpstreamOutcomes : UpstreamSettle(r, o)
  \/ \E r \in Reqs, v \in BOOLEAN : UploadSucceed(r, v)
  \/ \E r \in Reqs : UploadFail(r)
  \/ \E r \in Reqs : OwnerResume(r)
  \/ \E r \in Reqs : WaiterResume(r)
  \/ \E d \in ClockSteps : Tick(d)

Spec == Init /\ [][Next]_vars

\* the image route driven with NameInputs, at one clock value
NextNames ==
  \/ \E r \in Reqs, i \in NameInputs : Request(r, i.f, i.q)
  \/ \E r \in Reqs, a \in CdnAnswerKinds : CdnFound(r, a)
  \/ \E r \in Reqs, a \in CdnAnswerKinds : JoinUpload(r, a)
  \/ \E r \in Reqs, a \in CdnAnswerKinds : StartUpload(r, a)
  \/ \E r \in Reqs, o \in UpstreamOutcomes : UpstreamSettle(r, o)
  \/ \E r \in Reqs, v \in BOOLEAN : UploadSucceed(r, v)
  \/ \E r \in Reqs : UploadFail(r)
  \/ \E r \in Reqs : OwnerResume(r)
  \/ \E r \in Reqs : WaiterResume(r)

SpecNames == Init /\ [][NextNames]_vars

\* every getImageInfo, getPropertyMedia and uploadMultipleSizes call settles,
\* and the event loop runs the continuation of every settled await
RouteFairness ==
  \A r \in Reqs :
    /\ WF_vars(\E a \in CdnAnswerKinds :
                 JoinUpload(r, a) \/ StartUpload(r, a) \/ CdnFound(r, a))
    /\ WF_vars(\E o \in UpstreamOutcomes : UpstreamSettle(r, o))
    /\ WF_vars(UploadFail(r) \/ (\E v \in BOOLEAN : UploadSucceed(r, v)))
    /\ WF_vars(OwnerResume(r))
    /\ WF_vars(WaiterResume(r))

SpecNamesFair == SpecNames /\ RouteFairness

\* the image route driven with ExtensionInputs, at one clock value
NextExtensions ==
  \/ \E r \in Reqs, i \in ExtensionInputs : Request(r, i.f, i.q)
  \/ \E r \in Reqs, a \in CdnAnswerKinds : CdnFound(r, a)
  \/ \E r \in Reqs, a \in CdnAnswerKinds : JoinUpload(r, a)
  \/ \E r \in Reqs, a \in CdnAnswerKinds : StartUpload(r, a)
  \/ \E r \in Reqs, o \in UpstreamOutcomes : UpstreamSettle(r, o)
  \/ \E r \in Reqs, v \in BOOLEAN : UploadSucceed(r, v)
  \/ \E r \in Reqs : UploadFail(r)
  \/ \E r \in Reqs : OwnerResume(r)
  \/ \E r \in Reqs : WaiterResume(r)

SpecExtensions == Init /\ [][NextExtensions]_vars

\* ------------------------------------------------- the cache API, directly
\* lengths by which the clock advances between two calls of the cache API
CacheClockSteps == { 1, MsPerSec, DefaultTtlSec * MsPerSec }

Held(k) == k \in CacheKeysOf(cache)

\* cache.set(k, v, customTtl), with a value that tells the calls apart
ApiSet(k, customTtl) ==
  /\ cacheOps < MaxCacheOps
  /\ cache' = CacheSet(cache, k, ApiValue(cacheOps + 1), customTtl, now)
  /\ setLog' = [setLog EXCEPT ![k] = [at |-> now, ttl |-> customTtl, set |-> TRUE]]
  /\ lastOp' = [op |-> "set", key |-> k, found |-> FALSE, value |-> NoValue,
                at |-> now, held |-> Held(k)]
  /\ cacheOps' = cacheOps + 1
  /\ UNCHANGED <<now, ticks, routeVars, sideVars>>

\* cache.get(k)
ApiGet(k) ==
  LET got == CacheGet(cache, k, now)
  IN /\ cacheOps < MaxCacheOps
     /\ cache' = got.cache
     /\ lastOp' = [op |-> "get", key |-> k, found |-> got.found,
                   value |-> got.value, at |-> now, held |-> Held(k)]
     /\ cacheOps' = cacheOps + 1
     /\ UNCHANGED <<now, ticks, setLog, routeVars, sideVars>>

\* cache.has(k)
ApiHas(k) ==
  LET got == CacheHas(cache, k, now)
  IN /\ cacheOps < MaxCacheOps
     /\ cache' = got.cache
     /\ lastOp' = [op |-> "has", key |-> k, found |-> got.found,
                   value |-> NoValue, at |-> now, held |-> Held(k)]
     /\ cacheOps' = cacheOps + 1
     /\ UNCHANGED <<now, ticks, setLog, routeVars, sideVars>>

\* cache.delete(k)
ApiDelete(k) ==
  /\ cacheOps < MaxCacheOps
  /\ cache' = CacheDelete(cache, k)
  /\ lastOp' = [op |-> "delete", key |-> k, found |-> Held(k),
                value |-> NoValue, at |-> now, held |-> Held(k)]
  /\ cacheOps' = cacheOps + 1
  /\ UNCHANGED <<now, ticks, setLog, routeVars, sideVars>>

\* cache.cleanup()
ApiCleanup ==
  /\ cacheOps < MaxCacheOps
  /\ cache' = CacheCleanup(cache, now)
  /\ lastOp' = [op |-> "cleanup", key |-> <<>>, found |-> FALSE,
                value |-> NoValue, at |-> now, held |-> FALSE]
  /\ cacheOps' = cacheOps + 1
  /\ UNCHANGED <<now, ticks, setLog, routeVars, sideVars>>

\* the clock advances between two calls
CacheTick(d) ==
  /\ ticks < MaxTicks
  /\ now' = now + d
  /\ ticks' = ticks + 1
  /\ UNCHANGED <<cache, routeVars, cacheApiVars, sideVars>>

NextCache ==
  \/ \E k \in ApiKeys, t \in ApiTtls : ApiSet(k, t)
  \/ \E k \in ApiKeys : ApiGet(k)
  \/ \E k \in ApiKeys : ApiHas(k)
  \/ \E k \in ApiKeys : ApiDelete(k)
  \/ ApiCleanup
  \/ \E d \in CacheClockSteps : CacheTick(d)

SpecCache == Init /\ [][NextCache]_vars

\* ------------------------------------------- the upstream client, directly
\* what one HTTP attempt can settle with: a 2xx response, or an error e with
\* e.response.status (0: no response), e.code, e.response.data.message,
\* e.message and e.config ("" stands for an absent or empty string)
Http(status, code, dataMessage, message, hasConfig) ==
  [status |-> status, code |-> code, dataMessage |-> dataMessage,
   message |-> message, hasConfig |-> hasConfig]

HttpOutcomes ==
  { Http(200, "", "", "", TRUE),
    Http(0, "ECONNABORTED", "", "timeout of 30000ms exceeded", TRUE),
    Http(0, "", "", "Network Error", TRUE),
    Http(0, "", "", "", FALSE),
    Http(400, "ERR_BAD_REQUEST", "bad request", "Request failed with status code 400", TRUE),
    Http(404, "", "", "Request failed with status code 404", TRUE),
    Http(499, "ERR_BAD_REQUEST", "", "", TRUE),
    Http(500, "ERR_BAD_RESPONSE", "", "Request failed with status code 500", TRUE),
    Http(503, "", "unavailable", "Request failed with status code 503", TRUE),
    Http(599, "ERR_BAD_RESPONSE", "", "", TRUE) }

IsSuccess(o) == o.status >= 200 /\ o.status < 300

\* the values a field of the selector can have: undefined, '' or a name
SelectorValues == { "undefined", "", "x" }
Selectors == [propref : SelectorValues, filename : SelectorValues]

\* truthiness of a selector field
Truthy(v) == v \notin { "undefined", "" }

\* Number.prototype.toString for a non-negative integer, as decimal digits
RECURSIVE DecimalString(_)
DecimalString(n) ==
  IF n < 10 THEN <<n>> ELSE Append(DecimalString(n \div 10), n % 10)

\* Math.pow(2, n)
RECURSIVE Pow2(_)
Pow2(n) == IF n = 0 THEN 1 ELSE 2 * Pow2(n - 1)

\* ShouldRetry that compares the retry count with > instead of >=
ShouldRetryOneMore(e, retryCount, retries) ==
  IF ~e.hasConfig THEN FALSE
  ELSE IF retryCount > retries THEN FALSE
  ELSE e.status = 0 \/ (e.status >= 500 /\ e.status < 600)

\* RentmanApiClient.shouldRetry
ShouldRetry(e, retryCount, retries) ==
  IF ~e.hasConfig THEN FALSE
  ELSE IF retryCount >= retries THEN FALSE
  ELSE e.status = 0 \/ (e.status >= 500 /\ e.status < 600)

\* BackoffDelay that grows linearly
BackoffDelayLinear(retryCount) == RetryDelayMs * (retryCount + 1)

\* the delay retryRequest waits when the request has been retried retryCount
\* times so far
BackoffDelay(retryCount) == RetryDelayMs * Pow2(retryCount)

\* FormatError that drops the upstream status
FormatErrorNoStatus(e) ==
  [kind |-> "ErrorResponse",
   success |-> FALSE,
   error |-> IF e.code # "" THEN e.code ELSE "UNKNOWN_ERROR",
   message |-> IF e.dataMessage # "" THEN e.dataMessage
               ELSE IF e.message # "" THEN e.message
               ELSE "An unknown error occurred",
   code |-> <<>>]

\* RentmanApiClient.formatError; code is <<>> when undefined
FormatError(e) ==
  [kind |-> "ErrorResponse",
   success |-> FALSE,
   error |-> IF e.code # "" THEN e.code ELSE "UNKNOWN_ERROR",
   message |-> IF e.dataMessage # "" THEN e.dataMessage
               ELSE IF e.message # "" THEN e.message
               ELSE "An unknown error occurred",
   code |-> IF e.status # 0 THEN DecimalString(e.status) ELSE <<>>]

\* the Error thrown by getPropertyMedia's guard
SelectorError ==
  [kind |-> "Error", success |-> FALSE, error |-> "",
   message |-> "Either propref or filename must be provided", code |-> <<>>]

\* the ApiResponse a call resolves with
ApiResponse(o) ==
  [kind |-> "ApiResponse", success |-> TRUE, error |-> "", message |-> "",
   code |-> DecimalString(o.status)]

\* new RentmanApiClient({..., retries})
NewClient(retries) ==
  /\ cState = "unbuilt"
  /\ cRetries' = retries
  /\ cState' = "idle"
  /\ UNCHANGED <<cParams, cRetryCount, cAttempts, cLog, cWaits, cResult>>
  /\ UNCHANGED <<now, ticks, cache, routeVars, cacheApiVars, limiterVars,
                 uploadsVars, syncVars>>

\* GetPropertyMedia that sends the request whatever the selector holds
GetPropertyMediaUnguarded(sel) ==
  /\ cState = "idle"
  /\ cParams' = sel
  /\ cState' = "inflight"
  /\ cAttempts' = cAttempts + 1
  /\ UNCHANGED <<cRetries, cRetryCount, cLog, cWaits, cResult>>
  /\ UNCHANGED <<now, ticks, cache, routeVars, cacheApiVars, limiterVars,
                 uploadsVars, syncVars>>

\* RentmanApiClient.getPropertyMedia(sel) up to its await: the guard, then
\* this.client.get
GetPropertyMedia(sel) ==
  /\ cState = "idle"
  /\ cParams' = sel
  /\ IF ~Truthy(sel.propref) /\ ~Truthy(sel.filename)
       THEN /\ cState' = "rejected"
            /\ cResult' = SelectorError
            /\ UNCHANGED cAttempts
       ELSE /\ cState' = "inflight"
            /\ cAttempts' = cAttempts + 1
            /\ UNCHANGED cResult
  /\ UNCHANGED <<cRetries, cRetryCount, cLog, cWaits>>
  /\ UNCHANGED <<now, ticks, cache, routeVars, cacheApiVars, limiterVars,
                 uploadsVars, syncVars>>

\* the attempt in flight settles with o: the response interceptor passes a
\* response on; for an error it either enters retryRequest (increments
\* retryCount and starts the backoff timer) or rejects with formatError
HttpSettle(o) ==
  /\ cState = "inflight"
  /\ cLog' = Append(cLog, o)
  /\ IF IsSuccess(o)
       THEN /\ cState' = "resolved"
            /\ cResult' = ApiResponse(o)
            /\ UNCHANGED <<cRetryCount, cWaits>>
       ELSE IF ShouldRetry(o, cRetryCount, cRetries)
         THEN /\ cState' = "backoff"
              /\ cRetryCount' = cRetryCount + 1
              /\ cWaits' = Append(cWaits, BackoffDelay(cRetryCount))
              /\ UNCHANGED cResult
         ELSE /\ cState' = "rejected"
              /\ cResult' = FormatError(o)
              /\ UNCHANGED <<cRetryCount, cWaits>>
  /\ UNCHANGED <<cRetries, cParams, cAttempts>>
  /\ UNCHANGED <<now, ticks, cache, routeVars, cacheApiVars, limiterVars,
                 uploadsVars, syncVars>>

\* the backoff timer fires and retryRequest sends the request again
BackoffElapsed ==
  /\ cState = "backoff"
  /\ cState' = "inflight"
  /\ cAttempts' = cAttempts + 1
  /\ UNCHANGED <<cRetries, cParams, cRetryCount, cLog, cWaits, cResult>>
  /\ UNCHANGED <<now, ticks, cache, routeVars, cacheApiVars, limiterVars,
                 uploadsVars, syncVars>>

NextClient ==
  \/ \E n \in 0..MaxRetries : NewClient(n)
  \/ \E sel \in Selectors : GetPropertyMedia(sel)
  \/ \E o \in HttpOutcomes : HttpSettle(o)
  \/ BackoffElapsed

SpecClient == Init /\ [][NextClient]_vars

\* every attempt settles (the request timeout bounds it) and every backoff
\* timer fires
ClientFairness ==
  /\ WF_vars(\E o \in HttpOutcomes : HttpSettle(o))
  /\ WF_vars(BackoffElapsed)

SpecClientFair == SpecClient /\ ClientFairness

\* --------------------------------------------------- the rate limiter, directly
\* lengths by which the clock advances between two requests
LimiterClockSteps == { 1, WindowMs }

\* the result of isAllowed and the entry it leaves in the Map
LimiterResult(allowed, remaining, resetTime, entry) ==
  [allowed |-> allowed, remaining |-> remaining, resetTime |-> resetTime,
   entry |-> entry]

\* IsAllowed that keeps counting in the window of the first request
IsAllowedNeverResets(entry, t) ==
  IF ~entry.present
    THEN LimiterResult(TRUE, LimitMax - 1, t + WindowMs,
           [present |-> TRUE, count |-> 1, resetTime |-> t + WindowMs])
  ELSE IF entry.count >= LimitMax
    THEN LimiterResult(FALSE, 0, entry.resetTime, entry)
  ELSE LimiterResult(TRUE, LimitMax - (entry.count + 1), entry.resetTime,
         [entry EXCEPT !.count = @ + 1])

\* RateLimiter.isAllowed at time t, for the entry the Map holds
IsAllowed(entry, t) ==
  IF ~entry.present \/ t > entry.resetTime
    THEN LimiterResult(TRUE, LimitMax - 1, t + WindowMs,
           [present |-> TRUE, count |-> 1, resetTime |-> t + WindowMs])
  ELSE IF entry.count >= LimitMax
    THEN LimiterResult(FALSE, 0, entry.resetTime, entry)
  ELSE LimiterResult(TRUE, LimitMax - (entry.count + 1), entry.resetTime,
         [entry EXCEPT !.count = @ + 1])

\* the rateLimit middleware for a request of identifier id: isAllowed, the
\* X-RateLimit headers, then 429 or next()
LimitedRequest(id) ==
  LET result == IsAllowed(limiter[id], lNow)
  IN /\ lOps < MaxLimiterOps
     /\ limiter' = [limiter EXCEPT ![id] = result.entry]
     /\ lLast' = [id |-> id, at |-> lNow, allowed |-> result.allowed,
                  status |-> IF result.allowed THEN 200 ELSE 429,
                  remaining |-> result.remaining,
                  resetTime |-> result.resetTime]
     /\ lAllowed' = IF result.allowed
                      THEN [lAllowed EXCEPT ![id] = Append(@, lNow)]
                      ELSE lAllowed
     /\ lOps' = lOps + 1
     /\ UNCHANGED <<lNow, lTicks>>
     /\ UNCHANGED <<now, ticks, cache, routeVars, cacheApiVars, clientVars,
                 uploadsVars, syncVars>>

\* RateLimiter.cleanup
LimiterCleanup ==
  /\ \E id \in Identifiers :
       limiter[id].present /\ lNow > limiter[id].resetTime
  /\ limiter' = [id \in Identifiers |->
                   IF limiter[id].present /\ lNow > limiter[id].resetTime
                     THEN NoEntry ELSE limiter[id]]
  /\ UNCHANGED <<lNow, lTicks, lLast, lAllowed, lOps>>
  /\ UNCHANGED <<now, ticks, cache, routeVars, cacheApiVars, clientVars,
                 uploadsVars, syncVars>>

\* the clock advances between two requests
LimiterTick(d) ==
  /\ lTicks < MaxLimiterTicks
  /\ lNow' = lNow + d
  /\ lTicks' = lTicks + 1
  /\ UNCHANGED <<limiter, lLast, lAllowed, lOps>>
  /\ UNCHANGED <<now, ticks, cache, routeVars, cacheApiVars, clientVars,
                 uploadsVars, syncVars>>

NextLimiter ==
  \/ \E id \in Identifiers : LimitedRequest(id)
  \/ LimiterCleanup
  \/ \E d \in LimiterClockSteps : LimiterTick(d)

SpecLimiter == Init /\ [][NextLimiter]_vars

\* ------------------------------------- the other routes that upload to the CDN
\* bodies of POST /api/images/upload: base64Data present or not, filename
\* (<<>> when absent)
PostBodies ==
  { [hasData |-> TRUE, filename |-> <<"foo", ".", "jpg">>],
    [hasData |-> FALSE, filename |-> <<"foo", ".", "jpg">>],
    [hasData |-> TRUE, filename |-> <<>>] }

\* media lists getPropertyMedia({ propref }) can resolve with in the gallery
\* route: each record has a filename and may lack base64data
GalleryLists ==
  { <<>>,
    << [filename |-> <<"foo", ".", "jpg">>, hasData |-> TRUE] >>,
    << [filename |-> <<"foo", ".", "jpg">>, hasData |-> TRUE],
       [filename |-> <<"bar", ".", "jpg">>, hasData |-> FALSE] >> }

\* the variables of the image route that the other routes never touch
imageRouteVars == <<uploadingImages, pc, filename, query, resp, via,
                    lookupSaw, cdnAnswer, waitOn, opState, opResult,
                    opFailure, upstreamCalls, uploadCalls, cdnChecks>>

\* app.ts 288-301: POST /api/images/upload arrives; a body without
\* base64Data or filename is answered 400, otherwise uploadMultipleSizes is
\* called
PostUpload(body) ==
  /\ pState = "idle"
  /\ pFile' = body.filename
  /\ IF ~body.hasData \/ body.filename = <<>>
       THEN /\ pState' = "done"
            /\ pResp' = [status |-> 400, results |-> NoResults]
       ELSE /\ pState' = "uploading"
            /\ UNCHANGED pResp
  /\ UNCHANGED <<gState, gMedia, gUpload, gResp>>
  /\ UNCHANGED <<now, ticks, cache, cdn, cdnClock, imageRouteVars,
                 cacheApiVars, clientVars, limiterVars, syncVars>>

\* app.ts 301-317: the upload of the POST route settles; on success the CDN
\* stored the bytes under a new version and the results are sent back
PostUploadSettle(ok, withVersion) ==
  /\ pState = "uploading"
  /\ pState' = "done"
  /\ IF ok
       THEN /\ cdnClock' = cdnClock + 1
            /\ cdn' = [cdn EXCEPT ![StripVersionPrefix(UploadPublicId(pFile))] =
                         cdnClock + 1]
            /\ pResp' = [status |-> 200,
                         results |-> UploadMultipleSizes(pFile,
                            IF withVersion THEN cdnClock + 1 ELSE 0)]
       ELSE /\ pResp' = [status |-> 500, results |-> NoResults]
            /\ UNCHANGED <<cdn, cdnClock>>
  /\ UNCHANGED <<pFile, gState, gMedia, gUpload, gResp>>
  /\ UNCHANGED <<now, ticks, cache, imageRouteVars, cacheApiVars, clientVars,
                 limiterVars, syncVars>>

\* search.ts 869-874: GET /api/properties/:id/gallery arrives and calls
\* getPropertyMedia
GalleryRequest ==
  /\ gState = "idle"
  /\ gState' = "fetching"
  /\ UNCHANGED <<pState, pFile, pResp, gMedia, gUpload, gResp>>
  /\ UNCHANGED <<now, ticks, cache, cdn, cdnClock, imageRouteVars,
                 cacheApiVars, clientVars, limiterVars, syncVars>>

\* search.ts 938-946: getPropertyMedia rejected
GalleryFetchFail ==
  /\ gState = "fetching"
  /\ gState' = "done"
  /\ gResp' = 500
  /\ UNCHANGED <<pState, pFile, pResp, gMedia, gUpload>>
  /\ UNCHANGED <<now, ticks, cache, cdn, cdnClock, imageRouteVars,
                 cacheApiVars, clientVars, limiterVars, syncVars>>

\* search.ts 876-920: getPropertyMedia resolved with list; an empty list is
\* answered at once, otherwise the upload of every record with bytes is
\* started and the handler awaits them all
GalleryFetched(list) ==
  /\ gState = "fetching"
  /\ gMedia' = list
  /\ IF Len(list) = 0
       THEN /\ gState' = "done"
            /\ gResp' = 200
            /\ UNCHANGED gUpload
       ELSE /\ gState' = "uploading"
            /\ gUpload' = [i \in 1..Len(list) |->
                             IF list[i].hasData THEN "uploading" ELSE "nodata"]
            /\ UNCHANGED gResp
  /\ UNCHANGED <<pState, pFile, pResp>>
  /\ UNCHANGED <<now, ticks, cache, cdn, cdnClock, imageRouteVars,
                 cacheApiVars, clientVars, limiterVars, syncVars>>

\* search.ts 895-916: the upload of the i-th record settles; on success the
\* four URLs are cached under the record's filename
GalleryUploadSettle(i, ok, withVersion) ==
  LET f == gMedia[i].filename
      results == UploadMultipleSizes(f, IF withVersion THEN cdnClock + 1 ELSE 0)
  IN /\ gState = "uploading"
     /\ i \in DOMAIN gUpload
     /\ gUpload[i] = "uploading"
     /\ IF ok
          THEN /\ cdnClock' = cdnClock + 1
               /\ cdn' = [cdn EXCEPT ![StripVersionPrefix(UploadPublicId(f))] =
                            cdnClock + 1]
               /\ cache' = CacheAllSizes(cache, f, results, Len(SizeOrder), now)
               /\ gUpload' = [gUpload EXCEPT ![i] = "ok"]
          ELSE /\ gUpload' = [gUpload EXCEPT ![i] = "failed"]
               /\ UNCHANGED <<cache, cdn, cdnClock>>
     /\ UNCHANGED <<pState, pFile, pResp, gState, gMedia, gResp>>
     /\ UNCHANGED <<now, ticks, imageRouteVars, cacheApiVars, clientVars,
                    limiterVars, syncVars>>

\* search.ts 920-937: Promise.allSettled resolved; the list is sent back
GalleryRespond ==
  /\ gState = "uploading"
  /\ \A i \in DOMAIN gUpload : gUpload[i] # "uploading"
  /\ gState' = "done"
  /\ gResp' = 200
  /\ UNCHANGED <<pState, pFile, pResp, gMedia, gUpload>>
  /\ UNCHANGED <<now, ticks, cache, cdn, cdnClock, imageRouteVars,
                 cacheApiVars, clientVars, limiterVars, syncVars>>

\* all the routes that upload, side by side
NextUploads ==
  \/ \E r \in Reqs, i \in UploadInputs : Request(r, i.f, i.q)
  \/ \E r \in Reqs, a \in CdnAnswerKinds : CdnFound(r, a)
  \/ \E r \in Reqs, a \in CdnAnswerKinds : JoinUpload(r, a)
  \/ \E r \in Reqs, a \in CdnAnswerKinds : StartUpload(r, a)
  \/ \E r \in Reqs, o \in UpstreamOutcomes : UpstreamSettle(r, o)
  \/ \E r \in Reqs, v \in BOOLEAN : UploadSucceed(r, v)
  \/ \E r \in Reqs : UploadFail(r)
  \/ \E r \in Reqs : OwnerResume(r)
  \/ \E r \in Reqs : WaiterResume(r)
  \/ \E b \in PostBodies : PostUpload(b)
  \/ \E ok \in BOOLEAN, v \in BOOLEAN : PostUploadSettle(ok, v)
  \/ GalleryRequest
  \/ GalleryFetchFail
  \/ \E l \in GalleryLists : GalleryFetched(l)
  \/ \E i \in 1..MaxGalleryLen, ok \in BOOLEAN, v \in BOOLEAN :
       GalleryUploadSettle(i, ok, v)
  \/ GalleryRespond

SpecUploads == Init /\ [][NextUploads]_vars

\* ------------------------------------------- the property sync, directly
\* A Redis command either takes effect or does not: RedisCache.exists, set and
\* delete return without effect when the connection is not ready and swallow
\* every error of the client.
RedisOutcomes == { "ok", "fail" }
FetchOutcomes == { "ok", "error" }

\* positions of an execution between `this.isSyncing = true` and the end of
\* the finally block
Holding == { "locking", "fetching", "storing", "releasing" }

\* syncProperties is called (cron tick, manualSync): the isSyncing test and the
\* call of redisCache.exists
SyncStart(x) ==
  /\ sPc[x] = "idle"
  /\ sRuns < MaxSyncRuns
  /\ sRuns' = sRuns + 1
  /\ IF isSyncing[x[1]]
       THEN /\ sLog' = [sLog EXCEPT ![x] = "skipped_running"]
            /\ UNCHANGED sPc
       ELSE /\ sPc' = [sPc EXCEPT ![x] = "exists"]
            /\ sLog' = [sLog EXCEPT ![x] = "none"]
  /\ UNCHANGED <<isSyncing, syncLock, syncData, syncCount, errorCount>>
  /\ UNCHANGED <<now, ticks, cache, routeVars, cacheApiVars, clientVars,
                 limiterVars, uploadsVars>>

\* redisCache.exists settles: skip when the lock is there, otherwise set
\* isSyncing without looking at it again and call redisCache.set for the lock
ExistsReply(x, o) ==
  /\ sPc[x] = "exists"
  /\ IF o = "ok" /\ syncLock
       THEN /\ sPc' = [sPc EXCEPT ![x] = "idle"]
            /\ sLog' = [sLog EXCEPT ![x] = "skipped_locked"]
            /\ UNCHANGED isSyncing
       ELSE /\ sPc' = [sPc EXCEPT ![x] = "locking"]
            /\ isSyncing' = [isSyncing EXCEPT ![x[1]] = TRUE]
            /\ UNCHANGED sLog
  /\ UNCHANGED <<syncLock, syncData, syncCount, errorCount, sRuns>>
  /\ UNCHANGED <<now, ticks, cache, routeVars, cacheApiVars, clientVars,
                 limiterVars, uploadsVars>>

\* redisCache.set(syncLock, true, 300) settles; getPropertyAdvertising is
\* called
LockSetReply(x, o) ==
  /\ sPc[x] = "locking"
  /\ sPc' = [sPc EXCEPT ![x] = "fetching"]
  /\ syncLock' = IF o = "ok" THEN TRUE ELSE syncLock
  /\ UNCHANGED <<isSyncing, syncData, syncCount, errorCount, sLog, sRuns>>
  /\ UNCHANGED <<now, ticks, cache, routeVars, cacheApiVars, clientVars,
                 limiterVars, uploadsVars>>

\* the upstream fetch settles: the writes of the properties are started, or
\* the catch block counts the error and the finally block calls
\* redisCache.delete
FetchSettle(x, o) ==
  /\ sPc[x] = "fetching"
  /\ IF o = "ok"
       THEN /\ sPc' = [sPc EXCEPT ![x] = "storing"]
            /\ UNCHANGED <<errorCount, sLog>>
       ELSE /\ sPc' = [sPc EXCEPT ![x] = "releasing"]
            /\ errorCount' = [errorCount EXCEPT ![x[1]] = @ + 1]
            /\ sLog' = [sLog EXCEPT ![x] = "failed"]
  /\ UNCHANGED <<isSyncing, syncLock, syncData, syncCount, sRuns>>
  /\ UNCHANGED <<now, ticks, cache, routeVars, cacheApiVars, clientVars,
                 limiterVars, uploadsVars>>

\* the writes of the properties and of the metadata settle (a failed write is
\* swallowed by RedisCache.set); the statistics are updated and the finally
\* block calls redisCache.delete
StoreSettle(x, o) ==
  /\ sPc[x] = "storing"
  /\ sPc' = [sPc EXCEPT ![x] = "releasing"]
  /\ syncData' = IF o = "ok" THEN TRUE ELSE syncData
  /\ syncCount' = [syncCount EXCEPT ![x[1]] = @ + 1]
  /\ sLog' = [sLog EXCEPT ![x] = "synced"]
  /\ UNCHANGED <<isSyncing, syncLock, errorCount, sRuns>>
  /\ UNCHANGED <<now, ticks, cache, routeVars, cacheApiVars, clientVars,
                 limiterVars, uploadsVars>>

\* redisCache.delete(syncLock) settles and isSyncing is cleared
ReleaseReply(x, o) ==
  /\ sPc[x] = "releasing"
  /\ sPc' = [sPc EXCEPT ![x] = "idle"]
  /\ syncLock' = IF o = "ok" THEN FALSE ELSE syncLock
  /\ isSyncing' = [isSyncing EXCEPT ![x[1]] = FALSE]
  /\ UNCHANGED <<syncData, syncCount, errorCount, sLog, sRuns>>
  /\ UNCHANGED <<now, ticks, cache, routeVars, cacheApiVars, clientVars,
                 limiterVars, uploadsVars>>

\* the 300 seconds of a lock that was left behind run out (a sync in progress
\* is taken to end within them)
LockExpire ==
  /\ syncLock
  /\ \A x \in Execs : sPc[x] \notin Holding
  /\ syncLock' = FALSE
  /\ UNCHANGED <<sPc, isSyncing, syncData, syncCount, errorCount, sLog, sRuns>>
  /\ UNCHANGED <<now, ticks, cache, routeVars, cacheApiVars, clientVars,
                 limiterVars, uploadsVars>>

NextSync ==
  \/ \E x \in Execs : SyncStart(x)
  \/ \E x \in Execs, o \in RedisOutcomes : ExistsReply(x, o)
  \/ \E x \in Execs, o \in RedisOutcomes : LockSetReply(x, o)
  \/ \E x \in Execs, o \in FetchOutcomes : FetchSettle(x, o)
  \/ \E x \in Execs, o \in RedisOutcomes : StoreSettle(x, o)
  \/ \E x \in Execs, o \in RedisOutcomes : ReleaseReply(x, o)
  \/ LockExpire

SpecSync == Init /\ [][NextSync]_vars

\* ================================================================== claims
Base(r) == BaseFilename(filename[r])
Started(r) == pc[r] # "idle"
Done(r) == pc[r] = "done"
Active(r) == opState[r] \in {"fetching", "uploading"}
FooJpg == <<"foo", ".", "jpg">>

\* C1: at every instant at most one upload operation (upstream fetch followed
\* by CDN upload) is active for a base filename, and every active upload is
\* the one the in-flight registry holds for that base filename: no request
\* starts an upload while another one is pending for the same base filename.
C1_OneActiveUploadPerBase ==
  /\ \A r \in Reqs : Active(r) => uploadingImages[Base(r)] = r
  /\ \A r1, r2 \in Reqs :
       (r1 # r2 /\ Active(r1) /\ Active(r2)) => Base(r1) # Base(r2)

\* C1 witness: an upload is active and another request for the same base
\* filename has found it in the registry and waits for it
C1_Witness ==
  \E r1, r2 \in Reqs :
    /\ r1 # r2
    /\ Active(r1)
    /\ pc[r2] = "waiting"
    /\ waitOn[r2] = r1
    /\ Base(r1) = Base(r2)

\* no upload promise has rejected and no getImageInfo has failed transiently
NoFailure ==
  /\ \A r \in Reqs : opState[r] # "rejected"
  /\ \A r \in Reqs : cdnAnswer[r].kind # "transient"

\* C2: N concurrent requests for one base filename that is initially in
\* neither the cache nor the CDN cause exactly one getPropertyMedia call and
\* exactly one CDN upload in total, under every interleaving, and all callers
\* are redirected to URLs of the same upload result.  (Stated for runs
\* without failures; the requests overlap: each one that looked the asset up
\* did so while the CDN did not hold it.)
C2_ExactlyOneUpload ==
  \A b \in Bases :
    ( /\ NoFailure
      /\ \A r \in Reqs : Started(r) /\ Base(r) = b /\ lookupSaw[r] = 0 )
    => /\ upstreamCalls[b] <= 1
       /\ uploadCalls[b] <= 1
       /\ (\A r \in Reqs : Done(r))
            => /\ upstreamCalls[b] = 1
               /\ uploadCalls[b] = 1
               /\ \A r1, r2 \in Reqs :
                    /\ resp[r1].status = 302
                    /\ ( \/ resp[r1].url.ver = resp[r2].url.ver
                         \/ resp[r1].url.ver = 0
                         \/ resp[r2].url.ver = 0 )
                    /\ resp[r1].url.pid = resp[r2].url.pid

\* C3: once the request that registered an upload has finished, whether the
\* upload succeeded or failed, the in-flight registry holds no entry for
\* its upload.
C3_RegistryCleared ==
  \A r \in Reqs : Done(r) => uploadingImages[Base(r)] # r

\* C3 witness: an owner has finished after its upload failed, and the
\* registry entry of its base filename is gone
C3_Witness ==
  \E r \in Reqs :
    /\ Done(r)
    /\ via[r] = "owner"
    /\ opState[r] = "rejected"
    /\ resp[r].status = 404
    /\ uploadingImages[Base(r)] = 0

\* the cache holds an entry for base filename b
CachedBase(b) ==
  \E i \in 1..Len(cache), s \in SizeNames \cup { ImageSize(n.f, n.q) : n \in Inputs } :
    cache[i].key = ImageKey(b, s)

\* C4: a failed upload leaves nothing behind: once its owner has finished the
\* registry does not hold it, and as long as no upload of a base filename
\* has succeeded the cache holds no entry for that base filename, so that
\* the next request runs the CDN check, the fetch and the upload again.
C4_FailureNotCached ==
  /\ \A r \in Reqs :
       (Done(r) /\ opState[r] = "rejected") => uploadingImages[Base(r)] # r
  /\ \A b \in Bases :
       cdn[StripVersionPrefix(UploadPublicId(b))] = 0 => ~CachedBase(b)
  /\ \A r \in Reqs :
       (Done(r) /\ via[r] \in {"owner", "waiter"} /\ resp[r].status = 404)
         => \A i \in 1..Len(cache) : cache[i].value # NoValue

\* C4 witness: an upload for a base filename failed, and a later request for
\* the same base filename ran its own upload and was redirected
C4_Witness ==
  \E r1, r2 \in Reqs :
    /\ r1 # r2
    /\ Base(r1) = Base(r2)
    /\ Done(r1) /\ via[r1] = "owner" /\ opState[r1] = "rejected"
    /\ Done(r2) /\ via[r2] = "owner" /\ opState[r2] = "resolved"
    /\ resp[r2].status = 302

\* the Map c holds an entry for k that has not expired at time t
Unexpired(c, k, t) ==
  \E i \in 1..Len(c) : c[i].key = k /\ t <= c[i].expires

\* the value of the entry for k
EntryValue(c, k) == (c[CHOOSE i \in 1..Len(c) : c[i].key = k]).value

\* C5: a request for a (base filename, size) that the cache holds unexpired
\* is redirected to the cached URL at once; it makes no CDN existence check,
\* no upstream fetch and no upload, and changes neither cache nor registry.
C5_CacheHitFastPath ==
  [][ \A r \in Reqs :
        ( /\ pc[r] = "idle"
          /\ pc'[r] # "idle"
          /\ Unexpired(cache,
                       ImageKey(BaseFilename(filename'[r]),
                                ImageSize(filename'[r], query'[r])), now) )
        => /\ pc'[r] = "done"
           /\ resp'[r] =
                [status |-> 302,
                 url |-> EntryValue(cache,
                           ImageKey(BaseFilename(filename'[r]),
                                    ImageSize(filename'[r], query'[r])))]
           /\ cdnChecks' = cdnChecks
           /\ upstreamCalls' = upstreamCalls
           /\ uploadCalls' = uploadCalls
           /\ opState' = opState
           /\ cache' = cache
           /\ uploadingImages' = uploadingImages ]_vars

\* C5 witness: a request was answered from the cache
C5_Witness ==
  \E r \in Reqs :
    /\ Done(r)
    /\ via[r] = "cache"
    /\ resp[r].status = 302
    /\ opState[r] = "none"

\* C6: for every ttl t passed to Cache.set, a get or has later than the
\* insertion time plus t reports the entry absent and removes it from the
\* Map; the stored value is never returned past that time.
C6_NeverServedPastTtl ==
  \A k \in ApiKeys :
    ( /\ lastOp.op \in {"get", "has"}
      /\ lastOp.key = k
      /\ setLog[k].set
      /\ setLog[k].ttl # <<>>
      /\ lastOp.at > setLog[k].at + setLog[k].ttl[1] * MsPerSec )
    => /\ ~lastOp.found
       /\ k \notin CacheKeysOf(cache)

\* C7: a request whose CDN existence check failed, with a not-found or a
\* transient error, is not answered with that error: it goes on to the
\* registry check and the upload, and is redirected to a URL of the upload
\* result whenever the upload it started or joined succeeds.
C7_CdnFailureFallsThrough ==
  \A r \in Reqs :
    cdnAnswer[r].kind \in {"notfound", "transient"}
    => /\ via[r] \in {"owner", "waiter"}
       /\ pc[r] \in {"owner_wait", "waiting", "done"}
       /\ Done(r) =>
            LET o == IF via[r] = "owner" THEN r ELSE waitOn[r]
            IN /\ resp[r].status \in {302, 404}
               /\ opState[o] = "resolved" =>
                    /\ resp[r].status = 302
                    /\ resp[r].url \in { opResult[o][s] : s \in SizeNames }
                    /\ resp[r].url.pid = PublicId(filename[r])

\* C7 witness: the existence check of a request failed transiently and the
\* request was redirected after its own upload
C7_Witness ==
  \E r \in Reqs :
    /\ cdnAnswer[r].kind = "transient"
    /\ Done(r)
    /\ via[r] = "owner"
    /\ resp[r].status = 302

\* the three filenames of the suffix-tolerance property
FooNames ==
  { <<"foo", "_", "thumb", ".", "jpg">>, <<"foo", ".", "jpg">>,
    <<"foo", "_", "large", ".", "jpg">> }

\* C8: requests for foo_thumb.jpg, foo.jpg and foo_large.jpg, in any order and
\* interleaving, use the same CDN public id, registry key and cache base, and
\* together trigger at most one upload.  (Stated for runs without failures.)
C8_FooNamesOneUpload ==
  /\ \A f \in FooNames :
       /\ BaseFilename(f) = FooJpg
       /\ PublicId(f) = Folder \o <<"/", "foo">>
  /\ ( /\ NoFailure
       /\ \A r \in Reqs : Started(r) => filename[r] \in FooNames )
     => uploadCalls[FooJpg] <= 1

\* the size suffix of a filename as the specification reads it: the tokens
\* "_", s right before the last "." with s one of the four sizes
HasSizeSuffix(f) ==
  /\ Len(f) >= 4
  /\ f[Len(f) - 1] = "."
  /\ f[Len(f) - 3] = "_"
  /\ <<f[Len(f) - 2]>> \in SizeNames

RefSize(f) == IF HasSizeSuffix(f) THEN <<f[Len(f) - 2]>> ELSE <<"medium">>

RefBase(f) ==
  IF HasSizeSuffix(f)
    THEN SubSeq(f, 1, Len(f) - 4) \o SubSeq(f, Len(f) - 1, Len(f))
    ELSE f

\* C9: a filename without a recognised size suffix is resolved as medium on
\* every path (cache key, URL generated for an asset found on the CDN, URL
\* picked from an upload result), and stripping the suffix changes no other
\* part of the name.
C9_UnknownSuffixIsMedium ==
  \A r \in Reqs :
    (Started(r) /\ query[r] = <<>>)
    => /\ BaseFilename(filename[r]) = RefBase(filename[r])
       /\ ImageSize(filename[r], query[r]) = RefSize(filename[r])
       /\ (Done(r) /\ via[r] = "cdn") =>
            /\ resp[r].url.tr = Transformations(RefSize(filename[r]))
            /\ ImageKey(RefBase(filename[r]), RefSize(filename[r]))
                 \in CacheKeysOf(cache)
       /\ (Done(r) /\ via[r] \in {"owner", "waiter"} /\ resp[r].status = 302) =>
            resp[r].url.tr = Transformations(RefSize(filename[r]))

\* C10: every URL the image route writes into the cache, on the CDN-found
\* path and on the upload path, carries a version token, also when the
\* CDN's response carries no version.
C10_CachedUrlsVersioned ==
  \A i \in 1..Len(cache) : cache[i].value.ver # 0

\* the four entries that upload operation o wrote are the cache's live
\* entries for its base filename
UploadEntriesLive(o) ==
  /\ opState[o] = "resolved"
  /\ \A s \in SizeNames :
       /\ Unexpired(cache, ImageKey(Base(o), s), now)
       /\ EntryValue(cache, ImageKey(Base(o), s)) = opResult[o][s]

\* C12: an upload operation of the image route calls the CDN upload once;
\* when it succeeds the cache holds entries for thumb, medium, large and
\* original of the base filename, all with the public id and the version of
\* that one upload; a following request for any of the four sizes, made while
\* those entries are live, is redirected to the URL of that version and
\* causes no upstream fetch and no upload.
C12_UploadWritesAllSizes ==
  [][ \A r \in Reqs :
        /\ (opState[r] = "fetching" /\ opState'[r] = "uploading")
             => uploadCalls'[Base(r)] = uploadCalls[Base(r)] + 1
        /\ (opState[r] = "uploading" /\ opState'[r] # "uploading")
             => uploadCalls' = uploadCalls
        /\ (opState[r] = "uploading" /\ opState'[r] = "resolved")
             => /\ \A s \in SizeNames :
                     /\ Unexpired(cache', ImageKey(Base(r), s), now)
                     /\ EntryValue(cache', ImageKey(Base(r), s)) = opResult'[r][s]
                     /\ opResult'[r][s].tr = Transformations(s)
                     /\ opResult'[r][s].pid = PublicId(filename[r])
                /\ \A s1, s2 \in SizeNames :
                     opResult'[r][s1].ver = opResult'[r][s2].ver
                /\ \A s \in SizeNames : opResult'[r][s].ver \in {0, cdn'[PublicId(filename[r])]}
        /\ \A o \in Reqs :
             ( /\ pc[r] = "idle"
               /\ pc'[r] # "idle"
               /\ UploadEntriesLive(o)
               /\ BaseFilename(filename'[r]) = Base(o)
               /\ ImageSize(filename'[r], query'[r]) \in SizeNames )
             => /\ pc'[r] = "done"
                /\ resp'[r].status = 302
                /\ resp'[r].url = opResult[o][ImageSize(filename'[r], query'[r])]
                /\ upstreamCalls' = upstreamCalls
                /\ uploadCalls' = uploadCalls ]_vars

\* C12 witness: an upload succeeded with one CDN upload call, and a request
\* for another size of the same base filename was answered from the cache
\* with the URL of that upload
C12_Witness ==
  \E o, r \in Reqs :
    /\ Done(o) /\ via[o] = "owner" /\ opState[o] = "resolved"
    /\ Done(r) /\ via[r] = "cache"
    /\ Base(r) = Base(o)
    /\ uploadCalls[Base(o)] = 1
    /\ ImageSize(filename[r], query[r]) \in SizeNames
    /\ ImageSize(filename[r], query[r]) # ImageSize(filename[o], query[o])
    /\ resp[r].url = opResult[o][ImageSize(filename[r], query[r])]
    /\ resp[r].url.ver # 0
    /\ resp[r].url.ver = resp[o].url.ver

\* the upload promise whose settling request r answered with
AwaitedOp(r) == IF via[r] = "owner" THEN r ELSE waitOn[r]

\* C13: the image route answers 404 only when the upstream holds no usable
\* record for the image (an empty list, or a record without bytes); when
\* getPropertyMedia is rejected (network failure or 5xx after the retries)
\* or the CDN rejects the upload, the answer is a 5xx status, never 404.
C13_NotFoundOnlyWhenAbsent ==
  \A r \in Reqs :
    (Done(r) /\ via[r] \in {"owner", "waiter"})
    => /\ resp[r].status = 404
            => opFailure[AwaitedOp(r)] \in {"empty", "nobytes"}
       /\ opFailure[AwaitedOp(r)] \in {"error", "cdn"}
            => resp[r].status \in {500, 502}

\* C18: a Cache.set made while the Map holds maxSize entries removes exactly
\* one entry before inserting, and that entry has the smallest insertion
\* time of the entries present.
C18_SetEvictsOldest ==
  [][ ( /\ cacheOps' = cacheOps + 1
        /\ lastOp'.op = "set"
        /\ Len(cache) = CacheMaxSize )
      => \E i \in 1..Len(cache) :
           /\ \A j \in 1..Len(cache) : cache[i].created <= cache[j].created
           /\ CacheKeysOf(cache') =
                (CacheKeysOf(cache) \ {cache[i].key}) \cup {lastOp'.key} ]_vars

\* the call has ended
ClientDone == cState \in {"resolved", "rejected"}

\* an attempt outcome after which a further attempt is allowed
Retryable(o) == o.status = 0 \/ (o.status >= 500 /\ o.status < 600)

ClientError(o) == o.status >= 400 /\ o.status < 500

\* C15: one call through the upstream client sends at most 1 + retries HTTP
\* requests; a request after the first is sent only when the attempt before
\* it ended without a response or with a 5xx status; and the call always
\* ends, resolved with a response or rejected with an error, whatever the
\* attempts settle with and for every retries value from 0 up.
C15_BoundedRetries ==
  /\ [](cAttempts <= 1 + cRetries)
  /\ [](ClientDone => cResult.kind \in {"ApiResponse", "ErrorResponse", "Error"})
  /\ [][ (cAttempts' > cAttempts /\ cAttempts >= 1)
         => /\ cAttempts' = cAttempts + 1
            /\ Len(cLog) = cAttempts
            /\ Retryable(cLog[Len(cLog)]) ]_vars
  /\ (cState \in {"inflight", "backoff"} ~> ClientDone)

\* C15 witness: a call was rejected after using all its attempts
C15_Witness ==
  /\ cState = "rejected"
  /\ cRetries >= 2
  /\ cAttempts = 1 + cRetries
  /\ Len(cWaits) = cRetries

\* the number a string of decimal digits denotes
RECURSIVE DecimalValue(_)
DecimalValue(d) ==
  IF Len(d) = 0 THEN 0
  ELSE 10 * DecimalValue(SubSeq(d, 1, Len(d) - 1)) + d[Len(d)]

C17_SelectorRequired ==
  (cState \notin {"unbuilt", "idle"}
     /\ ~Truthy(cParams.propref) /\ ~Truthy(cParams.filename))
  => /\ cState = "rejected"
     /\ cResult.kind = "Error"
     /\ cResult.message = "Either propref or filename must be provided"
     /\ cAttempts = 0
     /\ cLog = <<>>

\* C17 witness: getPropertyMedia({}) was rejected
C17_Witness ==
  /\ cState = "rejected"
  /\ cParams = NoSelector
  /\ cResult = SelectorError

\* the time at which the window of the i-th allowed request of a log opened:
\* the first allowed request opens a window, and so does every allowed
\* request made after the resetTime of the window before it
RECURSIVE WindowStart(_, _)
WindowStart(log, i) ==
  IF i = 1 THEN log[1]
  ELSE IF log[i] > WindowStart(log, i - 1) + WindowMs THEN log[i]
  ELSE WindowStart(log, i - 1)

\* the requests of identifier id let through so far in the window that
\* holds time t, when the last window opened is still open at t
AllowedInOpenWindow(id, t) ==
  LET log == lAllowed[id]
  IN IF Len(log) = 0 \/ t > WindowStart(log, Len(log)) + WindowMs THEN 0
     ELSE Cardinality({ j \in 1..Len(log) :
                          WindowStart(log, j) = WindowStart(log, Len(log)) })

\* a window of identifier id is open at time t
WindowOpen(id, t) ==
  /\ Len(lAllowed[id]) > 0
  /\ t <= WindowStart(lAllowed[id], Len(lAllowed[id])) + WindowMs

\* C19: per identifier, at most max requests are allowed within one window
\* (from the request that opens it until its resetTime); a further request
\* in the window is answered 429 with remaining 0 and leaves the stored
\* count as it is; the first request after resetTime is allowed and opens a
\* new window.
C19_FixedWindowLimit ==
  /\ [](\A id \in Identifiers : \A i \in 1..Len(lAllowed[id]) :
          Cardinality({ j \in 1..Len(lAllowed[id]) :
             WindowStart(lAllowed[id], j) = WindowStart(lAllowed[id], i) })
            <= LimitMax)
  /\ [][ lOps' = lOps + 1 =>
           LET id == lLast'.id
               used == AllowedInOpenWindow(id, lNow)
           IN /\ lLast'.at = lNow
              /\ (WindowOpen(id, lNow) /\ used >= LimitMax)
                   => /\ lLast'.status = 429
                      /\ ~lLast'.allowed
                      /\ lLast'.remaining = 0
                      /\ limiter'[id] = limiter[id]
                      /\ lAllowed' = lAllowed
              /\ (WindowOpen(id, lNow) /\ used < LimitMax)
                   => /\ lLast'.allowed
                      /\ lLast'.status # 429
                      /\ lLast'.remaining = LimitMax - (used + 1)
                      /\ lLast'.resetTime = limiter[id].resetTime
              /\ ~WindowOpen(id, lNow)
                   => /\ lLast'.allowed
                      /\ lLast'.status # 429
                      /\ lLast'.remaining = LimitMax - 1
                      /\ lLast'.resetTime = lNow + WindowMs
                      /\ limiter'[id] = [present |-> TRUE, count |-> 1,
                                         resetTime |-> lNow + WindowMs] ]_vars

\* C19 witness: one identifier used up its window, had one request rejected,
\* and its first request after resetTime was allowed and opened a new window
C19_Witness ==
  \E id \in Identifiers :
    /\ lOps = LimitMax + 2
    /\ Len(lAllowed[id]) = LimitMax + 1
    /\ \A other \in Identifiers \ {id} : lAllowed[other] = <<>>
    /\ lLast.id = id
    /\ lLast.allowed
    /\ lLast.at > lAllowed[id][1] + WindowMs
    /\ limiter[id] = [present |-> TRUE, count |-> 1,
                      resetTime |-> lLast.at + WindowMs]

\* C20: the rate limiter is a sliding window: in every time interval of
\* length windowMs, wherever it starts, at most max requests of one
\* identifier are allowed.
C20_SlidingWindow ==
  \A id \in Identifiers : \A i \in 1..Len(lAllowed[id]) :
    Cardinality({ j \in 1..Len(lAllowed[id]) :
                    /\ lAllowed[id][i] <= lAllowed[id][j]
                    /\ lAllowed[id][j] < lAllowed[id][i] + WindowMs })
      <= LimitMax

\* the CDN uploads in progress for the asset with public id p, counting the
\* image route, the POST route and the gallery route
UploadsInProgress(p) ==
  Cardinality({ r \in Reqs :
                  /\ opState[r] = "uploading"
                  /\ StripVersionPrefix(UploadPublicId(Base(r))) = p })
  + (IF pState = "uploading" /\ StripVersionPrefix(UploadPublicId(pFile)) = p
       THEN 1 ELSE 0)
  + Cardinality({ i \in DOMAIN gUpload :
                    /\ gUpload[i] = "uploading"
                    /\ StripVersionPrefix(UploadPublicId(gMedia[i].filename)) = p })

\* C11: a cache hit for an image returns a URL with the version of the most
\* recent upload of the asset: after a re-upload by any of the three routes
\* no unexpired cache entry of the asset carries an older version.  (An
\* entry without version token is not counted as older.)
C11_CacheHitsCurrent ==
  \A i \in 1..Len(cache) :
    (now <= cache[i].expires /\ cache[i].value.ver # 0)
    => cache[i].value.ver = cdn[cache[i].value.pid]

\* C14: process-wide, counting the image route, POST /api/images/upload and
\* the gallery route, at most one CDN upload of a base filename is in
\* progress at any instant.
C14_OneUploadProcessWide ==
  \A p \in PublicIds : UploadsInProgress(p) <= 1

\* C21: the wait before the k-th retry of an upstream request is
\* retryDelay * 2^(k-1) milliseconds: the first retry waits retryDelay, each
\* later retry waits twice as long as the one before, and there is one wait
\* per retry, never more than retries of them.
C21_ExponentialBackoff ==
  /\ Len(cWaits) <= cRetries
  /\ Len(cWaits) = cRetryCount
  /\ Len(cWaits) >= 1 => cWaits[1] = RetryDelayMs
  /\ \A k \in 1..Len(cWaits) :
       k > 1 => cWaits[k] = 2 * cWaits[k - 1]
  /\ cAttempts >= 1 =>
       Len(cWaits) = (IF cState = "backoff" THEN cAttempts ELSE cAttempts - 1)

\* C21 witness: a call has waited before its first, second and third retry
C21_Witness ==
  /\ Len(cWaits) = 3
  /\ cWaits = <<RetryDelayMs, 2 * RetryDelayMs, 4 * RetryDelayMs>>
  /\ cAttempts = 4

\* C27: after any sequence of calls of the cache API, several sets at one
\* clock value included, the Map never holds more than maxSize entries.
C27_SizeBounded == Len(cache) <= CacheMaxSize

\* the entries of the Map c other than the one for key k, as a set
OtherEntries(c, k) == { c[i] : i \in { j \in 1..Len(c) : c[j].key # k } }

\* C28: a Cache.set on a key the Map already holds replaces that key's entry
\* only: the entry of every other key is left as it was, also when the Map
\* holds maxSize entries.
C28_SetReplacesOnlyItsKey ==
  [][ ( /\ cacheOps' = cacheOps + 1
        /\ lastOp'.op = "set"
        /\ lastOp'.key \in CacheKeysOf(cache) )
      => OtherEntries(cache', lastOp'.key) = OtherEntries(cache, lastOp'.key)
    ]_vars

\* the handlers that await upload promise o: its owner and the waiters
HandlersOf(o) ==
  { r \in Reqs : (r = o /\ pc[r] = "owner_wait")
                   \/ (pc[r] = "waiting" /\ waitOn[r] = o) }

\* C22: no failure of the CDN existence check, the upstream fetch or the
\* CDN upload leaves a rejected promise without a handler: a pending upload
\* promise is always awaited by its owner, a failed existence check is
\* caught, and every such failure ends as an HTTP error response of the
\* owning request and of every waiting request, and of no other request.
C22_NoUnhandledRejection ==
  /\ \A o \in Reqs : Active(o) => o \in HandlersOf(o)
  /\ \A o \in Reqs :
       (opState[o] = "rejected" /\ HandlersOf(o) = {})
         => (Done(o) /\ \A r \in Reqs :
               (via[r] = "waiter" /\ waitOn[r] = o) => Done(r))
  /\ \A r \in Reqs :
       cdnAnswer[r].kind \in {"transient", "notfound"}
         => pc[r] \in {"owner_wait", "waiting", "done"}
  /\ \A r \in Reqs :
       Done(r) =>
         IF via[r] \in {"owner", "waiter"} /\ opState[AwaitedOp(r)] = "rejected"
           THEN resp[r].status >= 400 /\ resp[r].status < 600
           ELSE resp[r].status = 302

\* C22 witness: an upload failed, and both its owner and a request waiting
\* on it were answered with an error
C22_Witness ==
  \E o, w \in Reqs :
    /\ o # w
    /\ opState[o] = "rejected"
    /\ opFailure[o] \in {"error", "cdn"}
    /\ Done(o) /\ via[o] = "owner" /\ resp[o].status = 404
    /\ Done(w) /\ via[w] = "waiter" /\ waitOn[w] = o /\ resp[w].status = 404

\* the entry of the Map c for key k
EntryOf(c, k) == c[CHOOSE i \in 1..Len(c) : c[i].key = k]

\* C23: within one image request the steps happen in the order cache
\* lookup, CDN existence check, registry check, upstream fetch, CDN upload,
\* cache write: the handler and its upload promise move forward only; the
\* upstream fetch is issued only after this request's CDN check did not
\* find the asset, the upload only after the fetch, the upload's cache write
\* only when the upload succeeded; and a request whose CDN check finds the
\* asset makes no upstream fetch and no upload and caches the generated URL
\* for 3600 seconds.
C23_StepOrder ==
  [][ \A r \in Reqs :
        /\ pc'[r] # pc[r] =>
             \/ pc[r] = "idle" /\ pc'[r] \in {"done", "cdn_wait"}
             \/ pc[r] = "cdn_wait" /\ pc'[r] \in {"done", "waiting", "owner_wait"}
             \/ pc[r] \in {"waiting", "owner_wait"} /\ pc'[r] = "done"
        /\ (pc[r] = "idle" /\ pc'[r] = "cdn_wait") =>
             /\ ImageKey(BaseFilename(filename'[r]),
                         ImageSize(filename'[r], query'[r]))
                  \notin CacheKeysOf(cache')
             /\ cdnChecks'[BaseFilename(filename'[r])]
                  = cdnChecks[BaseFilename(filename'[r])] + 1
        /\ (pc[r] = "idle" /\ pc'[r] = "done") =>
             /\ via'[r] = "cache"
             /\ cdnChecks' = cdnChecks
        /\ opState'[r] # opState[r] =>
             \/ /\ opState[r] = "none" /\ opState'[r] = "fetching"
                /\ pc[r] = "cdn_wait" /\ pc'[r] = "owner_wait"
                /\ cdnAnswer'[r].kind \in {"notfound", "transient"}
                /\ uploadingImages[Base(r)] = 0
                /\ uploadingImages'[Base(r)] = r
                /\ upstreamCalls'[Base(r)] = upstreamCalls[Base(r)] + 1
             \/ /\ opState[r] = "fetching" /\ opState'[r] = "uploading"
                /\ uploadCalls'[Base(r)] = uploadCalls[Base(r)] + 1
                /\ cache' = cache
             \/ /\ opState[r] = "fetching" /\ opState'[r] = "rejected"
                /\ uploadCalls' = uploadCalls
                /\ cache' = cache
             \/ /\ opState[r] = "uploading" /\ opState'[r] = "resolved"
                /\ \A s \in SizeNames :
                     ImageKey(Base(r), s) \in CacheKeysOf(cache')
             \/ /\ opState[r] = "uploading" /\ opState'[r] = "rejected"
                /\ cache' = cache
        /\ upstreamCalls' # upstreamCalls =>
             \E o \in Reqs : opState[o] = "none" /\ opState'[o] = "fetching"
        /\ uploadCalls' # uploadCalls =>
             \E o \in Reqs : opState[o] = "fetching" /\ opState'[o] = "uploading"
        /\ (pc[r] = "cdn_wait" /\ pc'[r] = "done") =>
             LET k == ImageKey(Base(r), ImageSize(filename[r], query[r]))
             IN /\ via'[r] = "cdn"
                /\ cdnAnswer'[r].kind = "found"
                /\ opState'[r] = "none"
                /\ upstreamCalls' = upstreamCalls
                /\ uploadCalls' = uploadCalls
                /\ resp'[r].status = 302
                /\ k \in CacheKeysOf(cache')
                /\ EntryOf(cache', k).value = resp'[r].url
                /\ EntryOf(cache', k).expires = now + 3600 * 1000
        /\ via[r] = "cdn" => (opState'[r] = "none" /\ pc'[r] = "done") ]_vars

\* C23 witness: one request found the asset on the CDN and cached its URL
\* without an upload of its own, after another request had fetched and
\* uploaded the asset
C23_Witness ==
  \E r, o \in Reqs :
    /\ Done(o) /\ via[o] = "owner" /\ opState[o] = "resolved"
    /\ Done(r) /\ via[r] = "cdn" /\ opState[r] = "none"
    /\ Base(r) = Base(o)
    /\ upstreamCalls[Base(r)] = 1
    /\ uploadCalls[Base(r)] = 1
    /\ ImageKey(Base(r), ImageSize(filename[r], query[r])) \in CacheKeysOf(cache)

\* C24: a request that finds a pending upload for its base filename in the
\* registry makes no upstream fetch and no CDN upload of its own and never
\* removes the registry entry; when the pending upload succeeds it is
\* redirected to the URL of its requested size from the result map, or to
\* the medium URL when that size is not in the map, and when the upload
\* fails it gets an error response.
C24_WaiterGetsOutcome ==
  [][ \A r \in Reqs :
        /\ (pc[r] = "cdn_wait" /\ pc'[r] = "waiting") =>
             /\ uploadingImages[Base(r)] # 0
             /\ waitOn'[r] = uploadingImages[Base(r)]
             /\ uploadingImages' = uploadingImages
             /\ upstreamCalls' = upstreamCalls
             /\ uploadCalls' = uploadCalls
             /\ opState' = opState
        /\ (pc[r] = "waiting" /\ pc'[r] = "done") =>
             LET o == waitOn[r]
                 size == ImageSize(filename[r], query[r])
             IN /\ uploadingImages' = uploadingImages
                /\ upstreamCalls' = upstreamCalls
                /\ uploadCalls' = uploadCalls
                /\ opState' = opState
                /\ opState[r] = "none"
                /\ IF opState[o] = "resolved"
                     THEN /\ resp'[r].status = 302
                          /\ resp'[r].url =
                               (IF size \in SizeNames THEN opResult[o][size]
                                ELSE opResult[o][<<"medium">>])
                     ELSE /\ opState[o] = "rejected"
                          /\ resp'[r].status >= 400
                          /\ resp'[r].status < 600 ]_vars


\* executions of syncProperties that have set isSyncing and not yet finished
\* their finally block
Syncing == { x \in Execs : sPc[x] \in Holding }

\* C25: at no time are two executions of syncProperties, of one process or of
\* two processes sharing the Redis lock, both between acquiring the lock and
\* releasing it.
C25_NoConcurrentSyncs == Cardinality(Syncing) <= 1

\* C26: an execution that has set isSyncing ends, whatever failed, with
\* isSyncing false and the Redis lock deleted; an execution that is skipped,
\* because isSyncing is set or because the lock exists, changes neither
\* isSyncing nor the lock.
C26_SyncReleases ==
  [][\A x \in Execs :
       /\ (sPc[x] = "releasing" /\ sPc'[x] = "idle")
            => (~isSyncing'[x[1]] /\ ~syncLock')
       /\ (sPc[x] = "idle" /\ sLog'[x] = "skipped_running" /\ sRuns' # sRuns)
            => (isSyncing' = isSyncing /\ syncLock' = syncLock)
       /\ (sPc[x] = "exists" /\ sPc'[x] = "idle")
            => (isSyncing' = isSyncing /\ syncLock' = syncLock)]_vars


\* the public id under which the upload started by request r is stored
UploadTarget(r) == StripVersionPrefix(UploadPublicId(Base(r)))

\* C29: requested filenames with one CDN public id have one registry key, so
\* at most one upload to a CDN public id is in progress at any instant, also
\* for filenames that differ only in their extension.
C29_OneUploadPerPublicId ==
  \A r1 \in Reqs, r2 \in Reqs :
    (/\ opState[r1] = "uploading"
     /\ opState[r2] = "uploading"
     /\ UploadTarget(r1) = UploadTarget(r2)) => r1 = r2


\* request r has been answered with a redirect or with a JSON error
Responded(r) ==
  /\ pc[r] = "done"
  /\ resp[r].status \in {302} \cup (400..599)
InProgress(r) == pc[r] \notin {"idle", "done"}
RegistryEmpty == \A b \in Bases : uploadingImages[b] = 0

\* C30: provided every CDN and upstream call settles, every image request,
\* owner or waiter, eventually receives a response, a 302 or a JSON error,
\* and exactly one: the response is sent in the step that ends the handler
\* and never changes afterwards; and the registry is empty whenever no
\* request is in progress.
C30_EveryRequestAnswered ==
  /\ \A r \in Reqs : Started(r) ~> Responded(r)
  /\ [][\A r \in Reqs :
          resp'[r] # resp[r] => (pc[r] # "done" /\ pc'[r] = "done")]_vars
  /\ []((\A r \in Reqs : ~InProgress(r)) => RegistryEmpty)
C30_Witness ==
  \E r1 \in Reqs, r2 \in Reqs :
    /\ via[r1] = "owner" /\ Responded(r1)
    /\ via[r2] = "waiter" /\ Responded(r2)
    /\ opState[r1] = "rejected"
    /\ RegistryEmpty

====
